---------------------------- MODULE Spec2Model ----------------------------
(***************************************************************************)
(* A model of mai-video-plugin: the command layer's concurrency gate       *)
(* (core/video_command.py), the provider client (core/api_clients.py) and  *)
(* the circuit breaker that the configuration of plugin.py declares.       *)
(*                                                                         *)
(* asyncio is cooperative: a coroutine runs without interleaving from one  *)
(* suspension point to the next, so every action below is one such run.    *)
(* asyncio.Semaphore is modelled by what CPython 3.12 does (the sources    *)
(* nest same-quote f-strings, api_clients.py:498, which needs 3.12): a     *)
(* release hands the permit to the first waiter whose future is not done,  *)
(* and locked() is true while any waiter is queued.                        *)
(***************************************************************************)
EXTENDS Integers, Sequences, FiniteSets, TLC

(* ------------------------------ bounds --------------------------------- *)

\* Concurrent execute() calls (a finished call's slot serves a new request).
NumTasks == 3

\* The clock stops advancing here.
MaxTime == 2

\* The execute() calls that are followed to their end under fair scheduling.
NumCommandTasks == 2

(* --------------------------- configuration ----------------------------- *)

\* Caller identities.  "" stands for no caller: the user_id of an idle slot.
Users == {"u1", "u2", "admin"}

\* The callers who issue requests at the gate: one ordinary caller and one
\* administrator.
Callers == {"u1", "admin"}

\* components.admin_users
admin_users == {"admin"}

\* Values of components.max_requests the model is run with.
MaxRequestsChoices == {0, 2}

\* Values of components.max_requests_per_user.
PerUserChoices == {1}

\* Values of components.rate_limit_window_seconds.
WindowChoices == {1}

\* Values of components.max_requests_per_window.
LimitChoices == {2}

Tasks == 1..NumTasks

VARIABLES
    now,              \* time.time(), in whole seconds
    config,           \* the plugin configuration read by get_config
    video_semaphore,  \* VideoGenerationCommand._video_semaphore (<<>> is None)
    user_semaphores,  \* VideoGenerationCommand._user_semaphores (<<>> is absent)
    user_requests,    \* VideoGenerationCommand._user_requests
    pc,               \* where each execute() call is suspended
    user,             \* the user_id of each running execute() call
    have_waited,      \* execute()'s local have_waited
    admit_log,        \* history: the times _rate_limited admitted each caller
    rate_verdict,     \* history: the latest _rate_limited call and its result
    api_pc,           \* where the generate_video call is
    api_format,       \* model_config["format"] of the call
    elapsed,          \* seconds slept in the poll loop since it started
    api_result,       \* the (success, result) pair generate_video returned
    submits,          \* history: the submit POSTs the call has sent
    polls,            \* history: the poll requests the call has sent
    submit_answer,    \* what the provider answered to the submit POST
    poll_answer,      \* what the provider answered to the poll request of
                      \*   this iteration (no answer while it is in flight)
    recorded,         \* history: the record_success / record_failure calls
                      \*   the generate_video call has made on a breaker
    allowed_at_call,  \* history: what allow() of the breaker would have
                      \*   answered when generate_video was called
    breaker_config,   \* the three thresholds of the breaker
    breaker,          \* failure count, open-since timestamp, trial successes
    fail_streak,      \* history: consecutive record_failure calls on the
                      \*   closed breaker, none since the last record_success
    tripped_at,       \* history: when fail_streak reached the threshold
    trial_streak,     \* history: consecutive record_success calls since the
                      \*   recovery window of the open breaker had elapsed
    trial_failure_at, \* history: the latest record_failure call of the trial
                      \*   phase, no record_success since
    allow_log,        \* history: the latest allow() call and its result
    sender,           \* delay and max_retry of the VideoSendCilent
    dl_pc,            \* where the try_send call is
    attempt,          \* the loop variable of the send loop
    delay_time,       \* the local delay_time of the send loop
    transport_calls,  \* history: the POSTs the try_send call has made
    waits,            \* history: the seconds of each asyncio.sleep of it
    attempt_log,      \* history: how each iteration of the loop ended
    dl_result,        \* the (success, reason) pair try_send returned
    napcat_answer,    \* history: what the POST of this iteration ended in
                      \*   (no answer while it is in flight)
    configured_profile, \* history: models.<id> as the file configured it
    stored_config,    \* the dict models.<id> of the plugin configuration
    job_pc,           \* where each _execute_inner call is
    job_command,      \* the matched command of each call
    job_passed        \* history: model_config as each call handed it to
                      \*   generate_video

vars == <<now, config, video_semaphore, user_semaphores, user_requests,
          pc, user, have_waited, admit_log, rate_verdict,
          api_pc, api_format, elapsed, api_result, submits, polls,
          submit_answer, poll_answer, recorded, allowed_at_call,
          breaker_config, breaker, fail_streak, tripped_at, trial_streak,
          trial_failure_at, allow_log,
          sender, dl_pc, attempt, delay_time, transport_calls, waits,
          attempt_log, dl_result, napcat_answer,
          configured_profile, stored_config, job_pc, job_command, job_passed>>

\* The variables of one generate_video call.
api_vars == <<api_pc, api_format, elapsed, api_result, submits, polls,
              submit_answer, poll_answer, recorded, allowed_at_call>>

\* The variables of one circuit breaker and of the calls made on it.
breaker_vars == <<breaker_config, breaker, fail_streak, tripped_at,
                  trial_streak, trial_failure_at, allow_log>>

\* The variables of the gate: the class attributes of
\* VideoGenerationCommand and the locals of its execute() calls.
gate_vars == <<config, video_semaphore, user_semaphores, user_requests,
               pc, user, have_waited>>

\* The variables of one VideoSendCilent and of its try_send call.
delivery_vars == <<sender, dl_pc, attempt, delay_time, transport_calls,
                   waits, attempt_log, dl_result, napcat_answer>>

\* The variables of one model's configuration and of the jobs that use it.
profile_vars == <<configured_profile, stored_config, job_pc, job_command,
                  job_passed>>

\* The variables that generate_video does not touch.
outside_api == <<now, gate_vars, admit_log, rate_verdict, breaker_vars,
                 delivery_vars, profile_vars>>

\* The variables that execute() does not touch.
outside_gate == <<admit_log, rate_verdict, api_vars, breaker_vars,
                  delivery_vars, profile_vars>>

\* The variables that try_send does not touch.
outside_delivery == <<now, gate_vars, admit_log, rate_verdict, api_vars,
                      breaker_vars, profile_vars>>

\* The variables that get_video_size does not touch.
outside_profile == <<now, gate_vars, admit_log, rate_verdict, api_vars,
                     breaker_vars, delivery_vars>>

(* ------------------------- asyncio.Semaphore --------------------------- *)

\* asyncio.Semaphore(value): _value, the deque _waiters, and the waiters
\* whose future has been given its result (woken) but that have not run yet.
NewSemaphore(n) == [value |-> n, waiters |-> <<>>, woken |-> {}]

\* Semaphore.locked()
Locked(s) == s.value = 0 \/ Len(s.waiters) > 0

Remove(seq, x) == SelectSeq(seq, LAMBDA y : y # x)

Pending(s) == {i \in 1..Len(s.waiters) : s.waiters[i] \notin s.woken}

\* Semaphore._wake_up_next(): the first waiter whose future is not done
\* takes one permit.
WakeUpNext(s) ==
    IF Pending(s) = {} THEN s
    ELSE LET i == CHOOSE k \in Pending(s) : \A j \in Pending(s) : k <= j
         IN  [s EXCEPT !.value = @ - 1, !.woken = @ \cup {s.waiters[i]}]

\* A release that returns the permit and wakes nobody.
ReleaseWithoutWake(s) == [s EXCEPT !.value = @ + 1]

\* Semaphore.release()
Release(s) == WakeUpNext([s EXCEPT !.value = @ + 1])

\* The loop at the end of acquire(): while _value > 0, wake the next waiter.
RECURSIVE WakeWhilePositive(_)
WakeWhilePositive(s) ==
    IF s.value > 0 /\ Pending(s) # {} THEN WakeWhilePositive(WakeUpNext(s))
    ELSE s

\* acquire() on a locked semaphore: queue a future and suspend.
Enqueue(s, t) == [s EXCEPT !.waiters = Append(@, t)]

\* acquire() resumed with its future's result: leave the queue.
Resume(s, t) ==
    WakeWhilePositive([s EXCEPT !.waiters = Remove(@, t), !.woken = @ \ {t}])

\* acquire() resumed by CancelledError: leave the queue, and give back the
\* permit if the future already had its result.
CancelAcquire(s, t) ==
    WakeWhilePositive([s EXCEPT !.waiters = Remove(@, t),
                                !.woken = @ \ {t},
                                !.value = IF t \in s.woken THEN @ + 1 ELSE @])

(* --------------------------- the limiters ------------------------------ *)

\* A coercion that adds the 1 whatever x is.
CoerceAlwaysPlusOne(x) == (IF x < 0 THEN -x ELSE x) + 1

\* A coercion that takes the absolute value and leaves a 0 as it is.
CoerceAbsOnly(x) == IF x < 0 THEN -x ELSE x

\* abs(int(x)) + int(x == 0)
Coerce(x) == (IF x < 0 THEN -x ELSE x) + (IF x = 0 THEN 1 ELSE 0)

\* _get_video_semaphore(): created on first use, then shared.
GetVideoSemaphore ==
    IF video_semaphore = <<>> THEN NewSemaphore(Coerce(config.max_requests))
    ELSE video_semaphore[1]

\* A _get_user_semaphore that makes a semaphore on every call.
GetUserSemaphoreAlwaysNew(u) ==
    NewSemaphore(Coerce(config.max_requests_per_user))

\* _get_user_semaphore(user_id) for a caller who is not an administrator:
\* created on the caller's first use, then shared by the caller's requests.
GetUserSemaphore(u) ==
    IF user_semaphores[u] = <<>>
    THEN NewSemaphore(Coerce(config.max_requests_per_user))
    ELSE user_semaphores[u][1]

\* The while loop of _rate_limited: drop the entries older than the window.
RECURSIVE DropStale(_, _, _)
DropStale(q, t, window) ==
    IF q # <<>> /\ (t - Head(q)) > window THEN DropStale(Tail(q), t, window)
    ELSE q

\* A limiter that rejects only above the limit.
RateLimitedAboveLimit(q, t) ==
    LET q1 == DropStale(q, t, config.rate_limit_window_seconds)
    IN  IF Len(q1) > config.max_requests_per_window
        THEN [limited |-> TRUE, q |-> q1]
        ELSE [limited |-> FALSE, q |-> Append(q1, t)]

\* A limiter that records the rejected requests too.
RateLimitedRecordingRejected(q, t) ==
    LET q1 == DropStale(q, t, config.rate_limit_window_seconds)
    IN  [limited |-> Len(q1) >= config.max_requests_per_window,
         q |-> Append(q1, t)]

\* _rate_limited(user_id): the verdict and the caller's queue afterwards.
RateLimited(q, t) ==
    LET q1 == DropStale(q, t, config.rate_limit_window_seconds)
    IN  IF Len(q1) >= config.max_requests_per_window
        THEN [limited |-> TRUE, q |-> q1]
        ELSE [limited |-> FALSE, q |-> Append(q1, t)]

\* An is_admin that holds of nobody.
IsAdminOfNobody(u) == FALSE

\* execute(): is_admin, and whether the per-caller limiters apply.
IsAdmin(u) == u \in admin_users
Limited(u) == u # "" /\ ~IsAdmin(u)

\* A notice condition that looks at the global semaphore only.
NeedsQueueNoticeGlobalOnly(g, us, hasUser) == Locked(g)

\* execute() line 85: the condition under which the queued notice is sent.
NeedsQueueNotice(g, us, hasUser) == Locked(g) \/ (hasUser /\ Locked(us))

\* An entry that gives the global permit back while it queues for the
\* per-caller one.
AcquireUserGivingBackGlobal(t, g, us, hasUser) ==
    IF ~hasUser THEN [g |-> g, us |-> us, pc |-> "inner"]
    ELSE IF Locked(us)
    THEN [g |-> Release(g), us |-> Enqueue(us, t), pc |-> "wait_user"]
    ELSE [g |-> g, us |-> [us EXCEPT !.value = @ - 1], pc |-> "inner"]

\* `async with user_semaphore`, entered holding the global permit.
AcquireUser(t, g, us, hasUser) ==
    IF ~hasUser THEN [g |-> g, us |-> us, pc |-> "inner"]
    ELSE IF Locked(us) THEN [g |-> g, us |-> Enqueue(us, t), pc |-> "wait_user"]
    ELSE [g |-> g, us |-> [us EXCEPT !.value = @ - 1], pc |-> "inner"]

\* An entry that takes the free per-caller permit before it queues for the
\* global one.
AcquireGlobalUserFirst(t, g, us, hasUser) ==
    IF Locked(g)
    THEN [g |-> Enqueue(g, t),
          us |-> IF hasUser /\ ~Locked(us) THEN [us EXCEPT !.value = @ - 1]
                 ELSE us,
          pc |-> "wait_global"]
    ELSE AcquireUser(t, [g EXCEPT !.value = @ - 1], us, hasUser)

\* `async with semaphore:` and what follows, up to the first suspension.
AcquireGlobal(t, g, us, hasUser) ==
    IF Locked(g) THEN [g |-> Enqueue(g, t), us |-> us, pc |-> "wait_global"]
    ELSE AcquireUser(t, [g EXCEPT !.value = @ - 1], us, hasUser)


(* --------------------------- circuit breaker --------------------------- *)

\* The clock of the breaker stops advancing here.
MaxBreakerTime == 4

\* The open-since timestamp of a closed breaker: absent.
NoTime == -1

\* circuit_breaker.failure_threshold, recovery_seconds and
\* half_open_max_success, by default.
DefaultBreakerConfig ==
    [failure_threshold |-> 5, recovery_seconds |-> 120,
     half_open_max_success |-> 2]

\* The thresholds the breaker is run with on its own.
BreakerConfigs ==
    [failure_threshold : {1, 2}, recovery_seconds : {1, 2},
     half_open_max_success : {1, 2}]

ClosedBreaker ==
    [failure_count |-> 0, opened_at |-> NoTime, half_open_success |-> 0]

\* allow(): true when closed; when the open timestamp is set, true only
\* once recovery_seconds have elapsed since it.
allow_before_window_end(b, cfg, t) ==
    b.opened_at = NoTime \/ t - b.opened_at > cfg.recovery_seconds

allow(b, cfg, t) ==
    b.opened_at = NoTime \/ t - b.opened_at >= cfg.recovery_seconds

\* A record_success() that closes the breaker by clearing the open
\* timestamp only.
record_success_clearing_timestamp_only(b, cfg) ==
    IF b.opened_at = NoTime THEN [b EXCEPT !.failure_count = 0]
    ELSE IF b.half_open_success + 1 >= cfg.half_open_max_success
    THEN [b EXCEPT !.opened_at = NoTime]
    ELSE [b EXCEPT !.half_open_success = @ + 1]

\* record_success(): closed, the failure count is reset; with an open
\* timestamp set, the trial successes are counted and the breaker closes
\* fully when they reach half_open_max_success.
record_success_keeping_count(b, cfg) ==
    IF b.opened_at = NoTime THEN [b EXCEPT !.failure_count = 0]
    ELSE IF b.half_open_success + 1 >= cfg.half_open_max_success
    THEN [b EXCEPT !.opened_at = NoTime, !.half_open_success = 0]
    ELSE [b EXCEPT !.half_open_success = @ + 1]

record_success(b, cfg) ==
    IF b.opened_at = NoTime THEN [b EXCEPT !.failure_count = 0]
    ELSE IF b.half_open_success + 1 >= cfg.half_open_max_success
    THEN ClosedBreaker
    ELSE [b EXCEPT !.half_open_success = @ + 1]

\* A record_failure() that goes on counting while the open timestamp is
\* set.
record_failure_counting_while_open(b, cfg, t) ==
    IF b.opened_at # NoTime THEN [b EXCEPT !.failure_count = @ + 1]
    ELSE IF b.failure_count + 1 >= cfg.failure_threshold
    THEN [failure_count |-> b.failure_count + 1, opened_at |-> t,
          half_open_success |-> 0]
    ELSE [b EXCEPT !.failure_count = @ + 1]

\* record_failure(): ignored while the open timestamp is set; else the
\* failure is counted, and at failure_threshold the breaker opens: the
\* current time is recorded and the trial successes are reset.
record_failure_above_threshold(b, cfg, t) ==
    IF b.opened_at # NoTime THEN b
    ELSE IF b.failure_count + 1 > cfg.failure_threshold
    THEN [failure_count |-> b.failure_count + 1, opened_at |-> t,
          half_open_success |-> 0]
    ELSE [b EXCEPT !.failure_count = @ + 1]

record_failure(b, cfg, t) ==
    IF b.opened_at # NoTime THEN b
    ELSE IF b.failure_count + 1 >= cfg.failure_threshold
    THEN [failure_count |-> b.failure_count + 1, opened_at |-> t,
          half_open_success |-> 0]
    ELSE [b EXCEPT !.failure_count = @ + 1]

\* A new breaker, with thresholds from cfgs, and no call made on it yet.
BreakerFresh(cfgs) ==
    /\ breaker_config \in cfgs
    /\ breaker = ClosedBreaker
    /\ fail_streak = 0
    /\ tripped_at = NoTime
    /\ trial_streak = 0
    /\ trial_failure_at = NoTime
    /\ allow_log = [at |-> NoTime, result |-> TRUE]

\* The trial phase: the open timestamp is set and the recovery window has
\* elapsed.
InTrial ==
    /\ breaker.opened_at # NoTime
    /\ now - breaker.opened_at >= breaker_config.recovery_seconds

Min(a, b) == IF a < b THEN a ELSE b

\* A task calls allow().
AllowCall ==
    /\ allow_log' = [at |-> now, result |-> allow(breaker, breaker_config, now)]
    /\ UNCHANGED <<now, gate_vars, admit_log, rate_verdict, api_vars,
                   delivery_vars, profile_vars,
                   breaker_config, breaker, fail_streak, tripped_at,
                   trial_streak, trial_failure_at>>

\* A task calls record_success().
RecordSuccessCall ==
    /\ breaker' = record_success(breaker, breaker_config)
    /\ fail_streak' = 0
    /\ tripped_at' = NoTime
    /\ trial_streak' =
           IF InTrial \/ trial_streak > 0
           THEN Min(trial_streak + 1, breaker_config.half_open_max_success)
           ELSE 0
    /\ trial_failure_at' = NoTime
    /\ UNCHANGED <<now, gate_vars, admit_log, rate_verdict, api_vars,
                   delivery_vars, profile_vars,
                   breaker_config, allow_log>>

\* A task calls record_failure().
RecordFailureCall ==
    /\ breaker' = record_failure(breaker, breaker_config, now)
    /\ fail_streak' = IF breaker.opened_at = NoTime THEN fail_streak + 1
                      ELSE fail_streak
    /\ tripped_at' =
           IF /\ breaker.opened_at = NoTime
              /\ fail_streak + 1 = breaker_config.failure_threshold
           THEN now ELSE tripped_at
    /\ trial_streak' = 0
    /\ trial_failure_at' = IF InTrial THEN now ELSE trial_failure_at
    /\ UNCHANGED <<now, gate_vars, admit_log, rate_verdict, api_vars,
                   delivery_vars, profile_vars,
                   breaker_config, allow_log>>

\* The clock of the breaker advances.
BreakerTick ==
    /\ now < MaxBreakerTime
    /\ now' = now + 1
    /\ UNCHANGED <<gate_vars, outside_gate>>

BreakerNext ==
    \/ AllowCall
    \/ RecordSuccessCall
    \/ RecordFailureCall
    \/ BreakerTick

(* --------------------------- generate_video ---------------------------- *)

\* The sleep between two polls, in seconds (asyncio.sleep(5)).
poll_sleep_seconds == 5

\* api.poll_timeout_seconds, as the configuration schema declares it.
poll_timeout_seconds == 900

\* The poll loop is followed until it has slept this many seconds.
MaxElapsed == 910

\* Next to a breaker, the poll loop is followed until it has slept this
\* many seconds.
MaxOrchElapsed == 5

\* api.submit_max_retries, as the configuration schema declares it.
submit_max_retries == 2

\* A dispatch whose last branch takes every other tag as well.
KnownFormatsWithCatchAll ==
    {"openai", "siliconflow", "doubao", "vectorengine", "other"}

\* The format tags generate_video dispatches on, and one it does not know.
KnownFormats == {"openai", "siliconflow", "doubao", "vectorengine"}
Formats == KnownFormats \cup {"other"}

\* What the provider can answer to the submit POST: no answer at all
\* (requests.RequestException), or a status and a body.  The body is JSON
\* with the job identifier field of the format ("id"), JSON without it
\* ("no_id"), not JSON ("undecodable"), or JSON that is no object.
SubmitResponses ==
    {[kind |-> "conn_error", status |-> 0, body |-> "none"]}
    \cup [kind : {"http"},
          status : {200, 201, 400, 408, 429, 500, 502, 503, 504},
          body : {"id", "no_id", "undecodable", "not_object"}]

\* A submit that takes only the 4xx statuses for a refusal.
MakeRequestCheckingClientErrorsOnly(r) ==
    IF r.kind = "conn_error" THEN "network_request_failed"
    ELSE IF r.status \in 400..499 THEN "api_request_failed"
    ELSE IF r.body = "undecodable" THEN "response_parse_failed"
    ELSE IF r.body = "not_object" THEN "request_failed"
    ELSE IF r.body = "id" THEN "poll"
    ELSE "api_error"

\* A submit that goes on to poll whatever identifier the body gave it.
MakeRequestPollingWithoutId(r) ==
    IF r.kind = "conn_error" THEN "network_request_failed"
    ELSE IF r.status # 200 THEN "api_request_failed"
    ELSE IF r.body = "undecodable" THEN "response_parse_failed"
    ELSE IF r.body = "not_object" THEN "request_failed"
    ELSE "poll"

\* _make_<format>_request, from the POST to the return or to the poll
\* loop: "poll" when the job was accepted, else the failure returned.
MakeRequest(r) ==
    IF r.kind = "conn_error" THEN "network_request_failed"
    ELSE IF r.status # 200 THEN "api_request_failed"
    ELSE IF r.body = "undecodable" THEN "response_parse_failed"
    ELSE IF r.body = "not_object" THEN "request_failed"
    ELSE IF r.body = "id" THEN "poll"
    ELSE "api_error"

\* The status strings of a poll answer; "<none>" is an answer without the
\* status field.
PollStatuses ==
    {"completed", "succeeded", "success", "succeed", "Succeed", "failed",
     "Failed", "error", "expired", "pending", "", "<none>"}

\* What the provider can answer to a poll: no usable answer (connection
\* error, timeout, a body that is not JSON), or JSON with a status, the
\* place of the video URL ("top": video_url, "content": content.video_url,
\* "results": results.videos[0].url, "<place>_empty": that field holding
\* an empty URL, "none"), and whether it has an error field.
PollResponses ==
    {[kind |-> "failed_call", status |-> "<none>", url |-> "none",
      error |-> FALSE]}
    \cup [kind : {"json"}, status : PollStatuses,
          url : {"top", "top_empty", "content", "content_empty", "results",
                 "results_empty", "none"},
          error : BOOLEAN]

NotYet == [kind |-> "pending", ok |-> FALSE, text |-> ""]
Raised == [kind |-> "done", ok |-> FALSE, text |-> "request_failed"]
Done(ok, text) == [kind |-> "done", ok |-> ok, text |-> text]

\* The body of the loop of _poll_openai_task and _poll_vectorengine_task.
\* A missing key raises KeyError, which the except clause turns into
\* (False, "请求失败: ...").
PollOpenai(r) ==
    IF r.kind = "failed_call" \/ r.status = "<none>" THEN Raised
    ELSE IF r.status = "completed"
    THEN IF r.url = "top" THEN Done(TRUE, "url")
         ELSE IF r.url = "top_empty" THEN Done(TRUE, "")
         ELSE Raised
    ELSE IF r.status = "failed"
    THEN IF r.error THEN Done(FALSE, "generation_failed") ELSE Raised
    ELSE NotYet

\* The statuses s for which `s in ("Failed")` holds: ("Failed") is a
\* string, so this is the substring test.
SubstringsOfFailed == {"Failed", ""}

\* The body of the loop of _poll_siliconflow_task.  On a failed status the
\* code calls self.logger, which ApiClient does not have: AttributeError.
\* `None in "Failed"` raises TypeError.
PollSiliconflow(r) ==
    IF r.kind = "failed_call" THEN Raised
    ELSE IF r.status = "Succeed"
    THEN IF r.url = "results" THEN Done(TRUE, "url")
         ELSE IF r.url = "results_empty" THEN Done(TRUE, "url_not_returned")
         ELSE Raised
    ELSE IF r.status = "<none>" \/ r.status \in SubstringsOfFailed THEN Raised
    ELSE NotYet

\* The body of the loop of _poll_doubao_task.
PollDoubao(r) ==
    IF r.kind = "failed_call" \/ r.status = "<none>" THEN Raised
    ELSE IF r.status = "succeeded"
    THEN IF r.url = "content" THEN Done(TRUE, "url")
         ELSE IF r.url = "content_empty" THEN Done(TRUE, "")
         ELSE Raised
    ELSE IF r.status = "failed"
    THEN IF r.error THEN Done(FALSE, "generation_failed") ELSE Raised
    ELSE IF r.status = "expired"
    THEN IF r.error THEN Done(FALSE, "generation_expired") ELSE Raised
    ELSE NotYet

\* A poll loop that takes a failed poll call for "not yet".
PollOnceRetryingFailedCall(fmt, r) ==
    IF r.kind = "failed_call" THEN NotYet
    ELSE IF fmt = "siliconflow" THEN PollSiliconflow(r)
    ELSE IF fmt = "doubao" THEN PollDoubao(r)
    ELSE PollOpenai(r)

\* One iteration of the poll loop of the format.
PollOnce(fmt, r) ==
    IF fmt = "siliconflow" THEN PollSiliconflow(r)
    ELSE IF fmt = "doubao" THEN PollDoubao(r)
    ELSE PollOpenai(r)

NoResult == [ok |-> FALSE, text |-> "none"]

\* No submit answer, and no poll answer (the request is in flight).
NoSubmitAnswer == [kind |-> "none", status |-> 0, body |-> "none"]
NoPollAnswer ==
    [kind |-> "none", status |-> "<none>", url |-> "none", error |-> FALSE]

ApiInit ==
    /\ api_pc = "idle"
    /\ api_format = "openai"
    /\ elapsed = 0
    /\ api_result = NoResult
    /\ submits = 0
    /\ polls = 0
    /\ submit_answer = NoSubmitAnswer
    /\ poll_answer = NoPollAnswer
    /\ recorded = <<>>
    /\ allowed_at_call = TRUE

\* The submit answers a call with format fmt can get: an unknown format
\* sends no request.
SubmitAnswersOf(fmt) ==
    IF fmt \in KnownFormats THEN SubmitResponses ELSE {NoSubmitAnswer}

\* generate_video(prompt, model_config, input_image), called with
\* arguments it accepts, up to its first suspension: the dispatch on the
\* format, the submit POST (requests.post does not suspend) and, for an
\* accepted job, the first poll request.  An unknown format leaves
\* `success` unbound; the UnboundLocalError is caught.  No breaker is
\* asked and none is told the outcome.
GenerateVideo ==
    /\ api_pc = "idle"
    /\ \E fmt \in Formats :
         \E r \in SubmitAnswersOf(fmt) :
           LET m == IF fmt \in KnownFormats THEN MakeRequest(r)
                    ELSE "api_call_exception"
           IN  /\ api_format' = fmt
               /\ elapsed' = 0
               /\ submit_answer' = r
               /\ submits' = IF fmt \in KnownFormats THEN 1 ELSE 0
               /\ polls' = IF m = "poll" THEN 1 ELSE 0
               /\ IF m = "poll"
                  THEN /\ api_pc' = "poll"
                       /\ api_result' = NoResult
                  ELSE /\ api_pc' = "done"
                       /\ api_result' = [ok |-> FALSE, text |-> m]
    /\ poll_answer' = NoPollAnswer
    /\ recorded' = <<>>
    /\ allowed_at_call' = allow(breaker, breaker_config, now)
    /\ UNCHANGED outside_api

\* The provider answers a poll request.
PollAnswer ==
    /\ api_pc = "poll"
    /\ \E r \in PollResponses :
         LET p == PollOnce(api_format, r)
         IN  /\ poll_answer' = r
             /\ IF p.kind = "pending"
                THEN /\ api_pc' = "sleep"
                     /\ UNCHANGED api_result
                ELSE /\ api_pc' = "done"
                     /\ api_result' = [ok |-> p.ok, text |-> p.text]
    /\ UNCHANGED <<outside_api, api_format, elapsed, submits, polls,
                   submit_answer, recorded, allowed_at_call>>

\* await asyncio.sleep(5), then the next iteration of `while True` sends
\* its poll request.
PollSleep ==
    /\ api_pc = "sleep"
    /\ elapsed + poll_sleep_seconds <= MaxElapsed
    /\ elapsed' = elapsed + poll_sleep_seconds
    /\ polls' = polls + 1
    /\ poll_answer' = NoPollAnswer
    /\ api_pc' = "poll"
    /\ UNCHANGED <<outside_api, api_format, api_result, submits,
                   submit_answer, recorded, allowed_at_call>>

\* The caller has the pair generate_video returned; the call is over.
GenerateVideoReturn ==
    /\ api_pc = "done"
    /\ api_pc' = "idle"
    /\ api_format' = "openai"
    /\ elapsed' = 0
    /\ api_result' = NoResult
    /\ submits' = 0
    /\ polls' = 0
    /\ submit_answer' = NoSubmitAnswer
    /\ poll_answer' = NoPollAnswer
    /\ recorded' = <<>>
    /\ allowed_at_call' = TRUE
    /\ UNCHANGED outside_api

ApiNext == GenerateVideo \/ PollAnswer \/ PollSleep \/ GenerateVideoReturn

(* --------------------------- VideoSendCilent --------------------------- *)

\* self.delay and self.max_retry as __init__ sets them.
delay == 2
max_retry == 2

\* The values the two attributes are given here: the send loops read them
\* from the object on every call, whatever they were set to.
DelayChoices == {1, delay}
MaxRetryChoices == {1, max_retry, 3}
DefaultSender == [delay |-> delay, max_retry |-> max_retry]
Senders == [delay : DelayChoices, max_retry : MaxRetryChoices]

\* The "message" of a NapCat answer, as the set of the words and phrases
\* that occur in it, each as it is spelled in the answer.
Messages ==
    { {}, {"risk", "control"}, {"RISK"}, {"风控"}, {"file", "missing"},
      {"VIDEO"}, {"Video", "risk"}, {"ENOSPC"}, {"enospc"},
      {"ENOSPC", "no space left on device"}, {"No Space Left On Device"},
      {"timeout"} }

\* str.lower() on one word or phrase.
LowerWord(w) ==
    CASE w = "RISK" -> "risk"
      [] w = "VIDEO" -> "video"
      [] w = "Video" -> "video"
      [] w = "ENOSPC" -> "enospc"
      [] w = "No Space Left On Device" -> "no space left on device"
      [] OTHER -> w

\* (data.get("message") or "").lower()
LowerMessage(message) == {LowerWord(w) : w \in message}

\* needle in msg
InMessage(needle, msg) == needle \in msg

\* The retcodes that stand for risk control.
RiskRetcodes == {100, 120, 121}

\* What resp.json() gives: a dict with "status", "retcode" and "message"
\* (a missing or None message is the empty one), a dict whose "message" is
\* not a string, or a value that is not a dict.
Retcodes == {0, 100, 120, 121, 1200}
NapcatData ==
    [kind : {"dict"}, status : {"ok", "failed"}, retcode : Retcodes,
     message : Messages]
    \cup [kind : {"dict_message_not_str", "not_dict"}, status : {"failed"},
          retcode : {0}, message : {{}}]

\* _analyze_napcat_response: the reason of the (success, reason) pair, with
\* "ok" for success. An exception inside it gives "retryable".
AnalyzeNapcatResponse(data) ==
    IF data.kind = "not_dict" THEN "retryable"
    ELSE IF data.status = "ok" THEN "ok"
    ELSE IF data.kind = "dict_message_not_str" THEN "retryable"
    ELSE LET msg == LowerMessage(data.message)
         IN  IF InMessage("风控", msg) \/ InMessage("risk", msg)
             THEN "risk_control"
             ELSE IF data.retcode \in RiskRetcodes THEN "risk_control"
             ELSE IF InMessage("file", msg) \/ InMessage("video", msg)
             THEN "file_error"
             ELSE IF \/ InMessage("ENOSPC", msg)
                     \/ InMessage("no space left on device", msg)
             THEN "no_space"
             ELSE "retryable"

\* What one POST to NapCat ends in: asyncio.TimeoutError, another exception
\* (connection refused, a body that is not JSON), or an HTTP answer.
TransportAnswers ==
    [kind : {"timeout", "exception"}, status : {0},
     data : {[kind |-> "not_dict", status |-> "failed", retcode |-> 0,
              message |-> {}]}]
    \cup [kind : {"http"}, status : {200, 500}, data : NapcatData]

\* An iteration that classifies the body whatever the HTTP status is.
AttemptOutcomeIgnoringStatus(a) ==
    IF a.kind # "http" THEN a.kind ELSE AnalyzeNapcatResponse(a.data)

\* How one iteration of the send loop ends: "http_error" for a status other
\* than 200, else the exception caught or the reason of the classifier.
AttemptOutcome(a) ==
    IF a.kind # "http" THEN a.kind
    ELSE IF a.status # 200 THEN "http_error"
    ELSE AnalyzeNapcatResponse(a.data)

\* The reasons on which the loop returns at once.
FatalReasons == {"risk_control", "file_error", "no_space"}

\* The outcomes after which the loop goes on to its next iteration.
RetriedOutcomes == {"retryable", "timeout", "exception"}

NoSendResult == [ok |-> FALSE, text |-> "none"]

\* No answer: the POST is in flight, or none was sent.
NoNapcatAnswer ==
    [kind |-> "none", status |-> 0,
     data |-> [kind |-> "not_dict", status |-> "failed", retcode |-> 0,
               message |-> {}]]

\* No try_send call is running on a sender with one of the given attributes.
DeliveryIdle(senders) ==
    /\ sender \in senders
    /\ dl_pc = "idle"
    /\ attempt = 0
    /\ delay_time = 0
    /\ transport_calls = 0
    /\ waits = <<>>
    /\ attempt_log = <<>>
    /\ dl_result = NoSendResult
    /\ napcat_answer = NoNapcatAnswer

\* try_send up to the first iteration of _send_private_video or of
\* _send_group_video, which are the same loop on two URLs: without a user
\* id (group id) it returns a failure and posts nothing.
TrySend ==
    /\ dl_pc = "idle"
    /\ \E is_private \in BOOLEAN, target_id \in {"id", "none"} :
         IF target_id = "none"
         THEN /\ dl_pc' = "done"
              /\ dl_result' = [ok |-> FALSE, text |-> "no_target_id"]
              /\ UNCHANGED <<attempt, delay_time>>
         ELSE /\ delay_time' = sender.delay
              /\ attempt' = 1
              /\ dl_pc' = "post"
              /\ UNCHANGED dl_result
    /\ UNCHANGED <<sender, transport_calls, waits, attempt_log,
                   napcat_answer>>
    /\ UNCHANGED outside_delivery

\* An iteration that gives up the delivery on asyncio.TimeoutError.
SendAttemptGivingUpOnTimeout ==
    /\ dl_pc = "post"
    /\ \E a \in TransportAnswers :
         LET outcome == AttemptOutcome(a)
         IN  /\ transport_calls' = transport_calls + 1
             /\ attempt_log' = Append(attempt_log, outcome)
             /\ napcat_answer' = a
             /\ IF outcome = "ok"
                THEN /\ dl_pc' = "done"
                     /\ dl_result' = [ok |-> TRUE, text |-> "none"]
                ELSE IF \/ outcome \in {"http_error", "timeout"}
                        \/ outcome \in FatalReasons
                THEN /\ dl_pc' = "done"
                     /\ dl_result' = [ok |-> FALSE, text |-> outcome]
                ELSE IF attempt < sender.max_retry
                THEN /\ dl_pc' = "sleep"
                     /\ UNCHANGED dl_result
                ELSE /\ dl_pc' = "done"
                     /\ dl_result' =
                            [ok |-> FALSE, text |-> "retries_exhausted"]
    /\ UNCHANGED <<sender, attempt, delay_time, waits>>
    /\ UNCHANGED outside_delivery

\* An iteration that returns at once on success and on an HTTP error only,
\* and goes on after every classified failure.
SendAttemptRetryingEveryReason ==
    /\ dl_pc = "post"
    /\ \E a \in TransportAnswers :
         LET outcome == AttemptOutcome(a)
         IN  /\ transport_calls' = transport_calls + 1
             /\ attempt_log' = Append(attempt_log, outcome)
             /\ napcat_answer' = a
             /\ IF outcome = "ok"
                THEN /\ dl_pc' = "done"
                     /\ dl_result' = [ok |-> TRUE, text |-> "none"]
                ELSE IF outcome = "http_error"
                THEN /\ dl_pc' = "done"
                     /\ dl_result' = [ok |-> FALSE, text |-> outcome]
                ELSE IF attempt < sender.max_retry
                THEN /\ dl_pc' = "sleep"
                     /\ UNCHANGED dl_result
                ELSE /\ dl_pc' = "done"
                     /\ dl_result' =
                            [ok |-> FALSE, text |-> "retries_exhausted"]
    /\ UNCHANGED <<sender, attempt, delay_time, waits>>
    /\ UNCHANGED outside_delivery

\* One iteration of the loop down to "if attempt < self.max_retry".
SendAttempt ==
    /\ dl_pc = "post"
    /\ \E a \in TransportAnswers :
         LET outcome == AttemptOutcome(a)
         IN  /\ transport_calls' = transport_calls + 1
             /\ attempt_log' = Append(attempt_log, outcome)
             /\ napcat_answer' = a
             /\ IF outcome = "ok"
                THEN /\ dl_pc' = "done"
                     /\ dl_result' = [ok |-> TRUE, text |-> "none"]
                ELSE IF outcome = "http_error" \/ outcome \in FatalReasons
                THEN /\ dl_pc' = "done"
                     /\ dl_result' = [ok |-> FALSE, text |-> outcome]
                ELSE IF attempt < sender.max_retry
                THEN /\ dl_pc' = "sleep"
                     /\ UNCHANGED dl_result
                ELSE /\ dl_pc' = "done"
                     /\ dl_result' =
                            [ok |-> FALSE, text |-> "retries_exhausted"]
    /\ UNCHANGED <<sender, attempt, delay_time, waits>>
    /\ UNCHANGED outside_delivery

\* A sleep of the same delay before every retry.
BackoffWithoutDoubling ==
    /\ dl_pc = "sleep"
    /\ waits' = Append(waits, delay_time)
    /\ attempt' = attempt + 1
    /\ dl_pc' = "post"
    /\ napcat_answer' = NoNapcatAnswer
    /\ UNCHANGED <<sender, delay_time, transport_calls, attempt_log,
                   dl_result>>
    /\ UNCHANGED outside_delivery

\* await asyncio.sleep(delay_time); delay_time *= 2; the next iteration.
Backoff ==
    /\ dl_pc = "sleep"
    /\ waits' = Append(waits, delay_time)
    /\ delay_time' = delay_time * 2
    /\ attempt' = attempt + 1
    /\ dl_pc' = "post"
    /\ napcat_answer' = NoNapcatAnswer
    /\ UNCHANGED <<sender, transport_calls, attempt_log, dl_result>>
    /\ UNCHANGED outside_delivery

\* The caller has the pair; the sender is ready for the next try_send.
TrySendReturn ==
    /\ dl_pc = "done"
    /\ dl_pc' = "idle"
    /\ attempt' = 0
    /\ delay_time' = 0
    /\ transport_calls' = 0
    /\ waits' = <<>>
    /\ attempt_log' = <<>>
    /\ dl_result' = NoSendResult
    /\ napcat_answer' = NoNapcatAnswer
    /\ UNCHANGED sender
    /\ UNCHANGED outside_delivery

DeliveryNext == TrySend \/ SendAttempt \/ Backoff \/ TrySendReturn

(* --------------------------- get_video_size ---------------------------- *)

\* A key the dict does not have, and the value None.
Unset == "<unset>"
None == "None"

\* dict.get(key, default)
GetOr(value, default) == IF value = Unset THEN default ELSE value

\* The matched command of a request.
Commands == {"video", "video-l", "video-p"}

\* "needle" in model, for the model names of ModelNames.
ModelNames == {"sora-2", "sora2", "veo3-fast", "veo2", "grok-video"}
ModelContains(needle, model) ==
    needle \in (CASE model = "sora-2" -> {"sora", "sora-2"}
                  [] model = "sora2" -> {"sora"}
                  [] model = "veo3-fast" -> {"veo", "veo3"}
                  [] model = "veo2" -> {"veo", "veo2"}
                  [] OTHER -> {})

\* models.<id> as the configuration file gives it: the keys that
\* get_video_size reads or writes.
Profile(format, model, resolution) ==
    [format |-> format, model |-> model, resolution |-> resolution,
     size |-> Unset, ratio |-> Unset, aspect_ratio |-> Unset,
     orientation |-> Unset]
Profiles ==
    {Profile("openai", "sora-2", r) : r \in {Unset, "720p", "1080p"}}
    \cup {Profile(f, "sora2", Unset) : f \in {"siliconflow", "doubao"}}
    \cup {Profile("vectorengine", m, r) :
            m \in ModelNames, r \in {Unset, "1080p"}}

\* get_video_size(command, model_config): the dict it returns, which is
\* the dict it was given, with the keys it has assigned.
get_video_size(command, model_config) ==
    LET format == GetOr(model_config.format, "openai")
        model == GetOr(model_config.model, "sora2")
        resolution == GetOr(model_config.resolution, "720p")
    IN  CASE format = "openai" ->
               [model_config EXCEPT !.size =
                    IF command = "video" THEN None
                    ELSE IF command = "video-l"
                    THEN IF resolution = "1080p" THEN "1792x1024"
                         ELSE "1280x720"
                    ELSE IF resolution = "1080p" THEN "1024x1792"
                         ELSE "720x1280"]
          [] format = "siliconflow" ->
               [model_config EXCEPT !.size =
                    IF command = "video" THEN None
                    ELSE IF command = "video-l" THEN "1280x720"
                    ELSE "720x1280"]
          [] format = "doubao" ->
               [model_config EXCEPT !.ratio =
                    IF command = "video" THEN "adaptive"
                    ELSE IF command = "video-l" THEN "16:9"
                    ELSE "9:16"]
          [] format = "vectorengine" ->
               LET aspect_ratio ==
                       IF command = "video" THEN None
                       ELSE IF command = "video-l"
                       THEN IF ModelContains("veo3", model) THEN "16:9"
                            ELSE "3:2"
                       ELSE IF ModelContains("veo3", model) THEN "9:16"
                            ELSE "2:3"
                   orientation ==
                       IF command = "video" THEN None
                       ELSE IF ModelContains("sora-2", model)
                       THEN IF command = "video-l" THEN "landscape"
                            ELSE "portrait"
                       ELSE None
               IN  [model_config EXCEPT
                      !.resolution =
                          IF ModelContains("veo", model) THEN None ELSE @,
                      !.aspect_ratio =
                          IF \/ ModelContains("veo2", model)
                             \/ ModelContains("sora", model)
                          THEN None ELSE aspect_ratio,
                      !.orientation = orientation]
          [] OTHER -> model_config

\* models.<id> with the defaults of the plugin's configuration schema.
DefaultProfile == Profile("openai", "sora-2", "720p")

\* The jobs that run side by side: max_requests is 3 by default.
Jobs == 1..NumCommandTasks

NoProfile == Profile(Unset, Unset, Unset)

\* No job is running, and models.<id> is one of the given profiles.
ProfileIdle(profiles) ==
    /\ configured_profile \in profiles
    /\ stored_config = configured_profile
    /\ job_pc = [t \in Jobs |-> "idle"]
    /\ job_command = [t \in Jobs |-> "none"]
    /\ job_passed = [t \in Jobs |-> NoProfile]

\* _execute_inner from its start to the return of get_video_size: the dict
\* that _get_model_config returns is the one the plugin configuration
\* holds, and get_video_size assigns into it.
JobConfigure(t) ==
    /\ job_pc[t] = "idle"
    /\ \E command \in Commands :
         /\ job_command' = [job_command EXCEPT ![t] = command]
         /\ stored_config' = get_video_size(command, stored_config)
    /\ job_pc' = [job_pc EXCEPT ![t] = "configured"]
    /\ UNCHANGED <<configured_profile, job_passed>>
    /\ UNCHANGED outside_profile

\* After the awaits that follow (the recent image, the notices), the call
\* generate_video(model_config=model_config) is given what the dict holds
\* by then.
JobGenerate(t) ==
    /\ job_pc[t] = "configured"
    /\ job_passed' = [job_passed EXCEPT ![t] = stored_config]
    /\ job_pc' = [job_pc EXCEPT ![t] = "called"]
    /\ UNCHANGED <<configured_profile, stored_config, job_command>>
    /\ UNCHANGED outside_profile

\* _execute_inner returns.
JobReturn(t) ==
    /\ job_pc[t] = "called"
    /\ job_pc' = [job_pc EXCEPT ![t] = "idle"]
    /\ job_command' = [job_command EXCEPT ![t] = "none"]
    /\ job_passed' = [job_passed EXCEPT ![t] = NoProfile]
    /\ UNCHANGED <<configured_profile, stored_config>>
    /\ UNCHANGED outside_profile

ProfileNext ==
    \E t \in Jobs : JobConfigure(t) \/ JobGenerate(t) \/ JobReturn(t)

(* --------------------------- _execute_inner ---------------------------- *)

\* video.max_prompt_length, by default.
max_prompt_length == 800

\* What _execute_inner reads of a request: whether the configured model
\* exists, the length of the stripped description, whether a recent image
\* was found, and the model's support_option.
Requests ==
    [model_ok : BOOLEAN, desc_len : {0, 1, 800, 801}, has_image : BOOLEAN,
     support_option : {"1", "2", "3"}]

\* _validate_request: the description is not longer than the maximum.
ValidateRequest(len) == len <= max_prompt_length

\* A pre-flight without the check of the description's length.
PreFlightWithoutLengthCheck(r) ==
    IF ~r.model_ok THEN "model_not_found"
    ELSE IF r.desc_len = 0 THEN "missing_prompt"
    ELSE IF r.has_image /\ r.support_option = "1" THEN "image_not_supported"
    ELSE IF ~r.has_image /\ r.support_option = "2" THEN "text_not_supported"
    ELSE "pass"

\* The checks of _execute_inner before it announces the generation: the
\* reason it returns with, or "pass".
PreFlight(r) ==
    IF ~r.model_ok THEN "model_not_found"
    ELSE IF r.desc_len = 0 THEN "missing_prompt"
    ELSE IF ~ValidateRequest(r.desc_len) THEN "invalid_request"
    ELSE IF r.has_image /\ r.support_option = "1" THEN "image_not_supported"
    ELSE IF ~r.has_image /\ r.support_option = "2" THEN "text_not_supported"
    ELSE "pass"

\* The reasons _execute_inner returns with before it announces the
\* generation.
RejectReasons ==
    {"model_not_found", "missing_prompt", "invalid_request",
     "image_not_supported", "text_not_supported"}

\* The parameters generate_video declares (besides self), and the keyword
\* arguments _execute_inner calls it with.
GenerateVideoParams == {"prompt", "model_config", "input_image"}
GenerateVideoKeywords == {"prompt", "model_config", "input_image", "model_id"}

\* The call api_client.generate_video(...) of _execute_inner: a keyword
\* the function does not declare raises TypeError at the call, before the
\* body of generate_video runs.
GenerateVideoCall ==
    IF GenerateVideoKeywords \subseteq GenerateVideoParams THEN "returned"
    ELSE "raised"

(* ------------------------------ execute -------------------------------- *)

Configs ==
    [max_requests : MaxRequestsChoices,
     max_requests_per_user : PerUserChoices,
     rate_limit_window_seconds : WindowChoices,
     max_requests_per_window : LimitChoices]

Init ==
    /\ now = 0
    /\ config \in Configs
    /\ video_semaphore = <<>>
    /\ user_semaphores = [u \in Users |-> <<>>]
    /\ user_requests = [u \in Users |-> <<>>]
    /\ pc = [t \in Tasks |-> "idle"]
    /\ user = [t \in Tasks |-> ""]
    /\ have_waited = [t \in Tasks |-> FALSE]
    /\ admit_log = [u \in Users |-> <<>>]
    /\ rate_verdict = [user |-> "", at |-> 0, limited |-> FALSE]
    /\ ApiInit
    /\ DeliveryIdle({DefaultSender})
    /\ ProfileIdle({DefaultProfile})
    /\ BreakerFresh({DefaultBreakerConfig})

\* The semaphores after a step of a call by u that left them as g and us.
SetSemaphores(u, g, us) ==
    /\ video_semaphore' = <<g>>
    /\ user_semaphores' =
           IF Limited(u) THEN [user_semaphores EXCEPT ![u] = <<us>>]
           ELSE user_semaphores

\* execute()'s local user_semaphore: the caller's semaphore, or None (here
\* a semaphore that is never stored) for an administrator or no caller.
UserSemaphoreOf(u) == IF Limited(u) THEN GetUserSemaphore(u) ELSE NewSemaphore(1)

\* time.time() advances.
Tick ==
    /\ now < MaxTime
    /\ now' = now + 1
    /\ UNCHANGED <<config, video_semaphore, user_semaphores, user_requests,
                   pc, user, have_waited, outside_gate>>

\* An execute() that consults the rate limiter after it has taken a free
\* global permit.
ExecuteCheckingRateInsideGate(t) ==
    /\ pc[t] = "idle"
    /\ \A s \in Tasks : s < t => pc[s] # "idle"
    /\ \E u \in Callers :
         LET rl == IF Limited(u) THEN RateLimited(user_requests[u], now)
                   ELSE [limited |-> FALSE, q |-> user_requests[u]]
             g  == GetVideoSemaphore
             us == UserSemaphoreOf(u)
             r  == AcquireGlobal(t, g, us, Limited(u))
         IN  /\ user' = [user EXCEPT ![t] = u]
             /\ user_requests' = [user_requests EXCEPT ![u] = rl.q]
             /\ IF rl.limited
                THEN /\ pc' = [pc EXCEPT ![t] = "rl_send"]
                     /\ SetSemaphores(u, IF Locked(g) THEN g
                                         ELSE [g EXCEPT !.value = @ - 1], us)
                     /\ UNCHANGED have_waited
                ELSE IF NeedsQueueNotice(g, us, Limited(u))
                THEN /\ pc' = [pc EXCEPT ![t] = "notify"]
                     /\ have_waited' = [have_waited EXCEPT ![t] = TRUE]
                     /\ SetSemaphores(u, g, us)
                ELSE /\ pc' = [pc EXCEPT ![t] = r.pc]
                     /\ SetSemaphores(u, r.g, r.us)
                     /\ UNCHANGED have_waited
    /\ UNCHANGED <<now, config, outside_gate>>

\* execute() from its start to its first suspension: the rate limiter, the
\* two semaphores, the locked() test, and either the queued notice (an
\* await) or the two acquires.  Slots are taken in order, lowest idle first.
Execute(t) ==
    /\ pc[t] = "idle"
    /\ \A s \in Tasks : s < t => pc[s] # "idle"
    /\ \E u \in Callers :
         LET rl == IF Limited(u) THEN RateLimited(user_requests[u], now)
                   ELSE [limited |-> FALSE, q |-> user_requests[u]]
             g  == GetVideoSemaphore
             us == UserSemaphoreOf(u)
             r  == AcquireGlobal(t, g, us, Limited(u))
         IN  /\ user' = [user EXCEPT ![t] = u]
             /\ user_requests' = [user_requests EXCEPT ![u] = rl.q]
             /\ IF rl.limited
                THEN /\ pc' = [pc EXCEPT ![t] = "rl_send"]
                     /\ UNCHANGED <<video_semaphore, user_semaphores,
                                    have_waited>>
                ELSE IF NeedsQueueNotice(g, us, Limited(u))
                THEN /\ pc' = [pc EXCEPT ![t] = "notify"]
                     /\ have_waited' = [have_waited EXCEPT ![t] = TRUE]
                     /\ SetSemaphores(u, g, us)
                ELSE /\ pc' = [pc EXCEPT ![t] = r.pc]
                     /\ SetSemaphores(u, r.g, r.us)
                     /\ UNCHANGED have_waited
    /\ UNCHANGED <<now, config, outside_gate>>

\* An execute() call returns (or raises) and its slot is free again.
Return(t) ==
    /\ pc' = [pc EXCEPT ![t] = "idle"]
    /\ user' = [user EXCEPT ![t] = ""]
    /\ have_waited' = [have_waited EXCEPT ![t] = FALSE]

\* The rate-limit reply was sent: return (False, "rate_limited", True).
RateLimitedReply(t) ==
    /\ pc[t] = "rl_send"
    /\ Return(t)
    /\ UNCHANGED <<now, config, video_semaphore, user_semaphores,
                   user_requests, outside_gate>>

\* The queued notice was sent: enter `async with semaphore`.
QueueNoticeSent(t) ==
    /\ pc[t] = "notify"
    /\ LET u == user[t]
           r == AcquireGlobal(t, video_semaphore[1], UserSemaphoreOf(u), Limited(u))
       IN  /\ pc' = [pc EXCEPT ![t] = r.pc]
           /\ SetSemaphores(u, r.g, r.us)
    /\ UNCHANGED <<now, config, user_requests, user, have_waited, outside_gate>>

\* A waiter of the global semaphore runs again, holding its permit, and
\* enters `async with user_semaphore`.
ResumeGlobal(t) ==
    /\ pc[t] = "wait_global"
    /\ t \in video_semaphore[1].woken
    /\ LET u == user[t]
           r == AcquireUser(t, Resume(video_semaphore[1], t),
                            UserSemaphoreOf(u), Limited(u))
       IN  /\ pc' = [pc EXCEPT ![t] = r.pc]
           /\ SetSemaphores(u, r.g, r.us)
    /\ UNCHANGED <<now, config, user_requests, user, have_waited, outside_gate>>

\* A waiter of a per-caller semaphore runs again, holding both permits.
ResumeUser(t) ==
    /\ pc[t] = "wait_user"
    /\ t \in user_semaphores[user[t]][1].woken
    /\ pc' = [pc EXCEPT ![t] = "inner"]
    /\ SetSemaphores(user[t], video_semaphore[1],
                     Resume(user_semaphores[user[t]][1], t))
    /\ UNCHANGED <<now, config, user_requests, user, have_waited, outside_gate>>

\* The ways the guarded job can end: _execute_inner returns a tuple, an
\* exception leaves it (a collaborator raising outside its try block), or
\* the task is cancelled at one of its awaits.
Outcomes == {"returned", "raised", "cancelled"}

\* An exit that releases only after a normal return, as plain
\* acquire()/release() calls around the job would.
ExitGateOnReturnOnly(t, outcome) ==
    IF outcome = "returned"
    THEN SetSemaphores(user[t], Release(video_semaphore[1]),
                       Release(UserSemaphoreOf(user[t])))
    ELSE UNCHANGED <<video_semaphore, user_semaphores>>

\* An exit that gives back the global permit and keeps the per-caller one.
ExitGateKeepingUserPermit(t, outcome) ==
    SetSemaphores(user[t], Release(video_semaphore[1]),
                  UserSemaphoreOf(user[t]))

\* Leaving the two `async with` blocks, whatever the outcome: __aexit__
\* releases the per-caller permit, when one is held, then the global one.
ExitGate(t, outcome) ==
    SetSemaphores(user[t], Release(video_semaphore[1]),
                  Release(UserSemaphoreOf(user[t])))

\* _execute_inner runs to its end inside the gate.
ExecuteInner(t) ==
    /\ pc[t] = "inner"
    /\ \E outcome \in Outcomes : ExitGate(t, outcome)
    /\ Return(t)
    /\ UNCHANGED <<now, config, user_requests, outside_gate>>

\* The task is cancelled while suspended outside _execute_inner:
\* CancelledError is raised at its await and leaves execute().
Cancel(t) ==
    /\ pc[t] \in {"rl_send", "notify", "wait_global", "wait_user"}
    /\ Return(t)
    /\ IF pc[t] = "wait_global"
       THEN SetSemaphores(user[t], CancelAcquire(video_semaphore[1], t),
                          UserSemaphoreOf(user[t]))
       ELSE IF pc[t] = "wait_user"
       THEN SetSemaphores(user[t], Release(video_semaphore[1]),
                          CancelAcquire(user_semaphores[user[t]][1], t))
       ELSE UNCHANGED <<video_semaphore, user_semaphores>>
    /\ UNCHANGED <<now, config, user_requests, outside_gate>>

Next ==
    \/ Tick
    \/ \E t \in Tasks : Execute(t)
    \/ \E t \in Tasks : RateLimitedReply(t)
    \/ \E t \in Tasks : QueueNoticeSent(t)
    \/ \E t \in Tasks : ResumeGlobal(t)
    \/ \E t \in Tasks : ResumeUser(t)
    \/ \E t \in Tasks : ExecuteInner(t)
    \/ \E t \in Tasks : Cancel(t)

Spec == Init /\ [][Next]_vars


(* ------------------- execute with _execute_inner in full --------------- *)

\* Where _execute_inner is suspended next for a request that reads as r:
\* in the reply of the first check that fails (about to return the check's
\* reason), or in the "generation started" notice.
InnerTarget(r) ==
    IF PreFlight(r) \in RejectReasons THEN "rejected" ELSE "started"

\* _execute_inner from its start to that suspension.
InnerStartWith(t, r) ==
    /\ pc[t] = "inner"
    /\ pc' = [pc EXCEPT ![t] = InnerTarget(r)]
    /\ UNCHANGED <<video_semaphore, user_semaphores, user, have_waited>>
    /\ UNCHANGED <<now, config, user_requests, outside_gate>>

InnerStart(t) == \E r \in Requests : InnerStartWith(t, r)

\* The reply of a failed check was sent: (False, reason, True) is returned
\* through both `async with` blocks.
PreFlightReply(t) ==
    /\ pc[t] = "rejected"
    /\ ExitGate(t, "returned")
    /\ Return(t)
    /\ UNCHANGED <<now, config, user_requests, outside_gate>>

\* The try block of _execute_inner, one run between two suspensions at a
\* time: the generate_video call, which either raises at once or submits
\* and polls (the default format, "openai"), and then the delivery and the
\* return.
GenerateVideoStep(t) ==
    /\ pc[t] \in {"started", "poll", "sleep", "deliver"}
    /\ IF pc[t] = "deliver"
       THEN /\ ExitGate(t, "returned")
            /\ Return(t)
       ELSE /\ UNCHANGED <<video_semaphore, user_semaphores, user,
                           have_waited>>
            /\ IF pc[t] = "started"
               THEN IF GenerateVideoCall = "raised"
                    THEN pc' = [pc EXCEPT ![t] = "except"]
                    ELSE \E r \in SubmitResponses :
                           pc' = [pc EXCEPT ![t] =
                                     IF MakeRequest(r) = "poll" THEN "poll"
                                     ELSE "deliver"]
               ELSE IF pc[t] = "poll"
               THEN \E r \in PollResponses :
                      pc' = [pc EXCEPT ![t] =
                                IF PollOnce("openai", r).kind = "pending"
                                THEN "sleep" ELSE "deliver"]
               ELSE pc' = [pc EXCEPT ![t] = "poll"]
    /\ UNCHANGED <<now, config, user_requests, outside_gate>>

\* The except clause of _execute_inner: the apology is sent and
\* (False, "execute_error", True) is returned.
ExceptReply(t) ==
    /\ pc[t] = "except"
    /\ ExitGate(t, "returned")
    /\ Return(t)
    /\ UNCHANGED <<now, config, user_requests, outside_gate>>

\* What request t does when the event loop runs it again.
Continue(t) ==
    \/ RateLimitedReply(t)
    \/ QueueNoticeSent(t)
    \/ ResumeGlobal(t)
    \/ ResumeUser(t)
    \/ InnerStart(t)
    \/ PreFlightReply(t)
    \/ GenerateVideoStep(t)
    \/ ExceptReply(t)

\* The requests followed to their end: the first NumCommandTasks slots.
CommandTasks == 1..NumCommandTasks

\* The clock is left alone here: it only feeds the rate limiter.
CommandNext ==
    \/ \E t \in CommandTasks : Execute(t)
    \/ \E t \in CommandTasks : RateLimitedReply(t)
    \/ \E t \in CommandTasks : QueueNoticeSent(t)
    \/ \E t \in CommandTasks : ResumeGlobal(t)
    \/ \E t \in CommandTasks : ResumeUser(t)
    \/ \E t \in CommandTasks : InnerStart(t)
    \/ \E t \in CommandTasks : PreFlightReply(t)
    \/ \E t \in CommandTasks : GenerateVideoStep(t)
    \/ \E t \in CommandTasks : ExceptReply(t)

\* The event loop runs every task that is ready to run, and every reply
\* and network call returns.
CommandSpec ==
    Init /\ [][CommandNext]_vars
         /\ \A t \in CommandTasks : WF_vars(Continue(t))


(* ------------------------ the rate limiter alone ----------------------- *)

\* Values of the window and the limit the limiter is run with on its own.
RateConfigs ==
    [max_requests : {2}, max_requests_per_user : {1},
     rate_limit_window_seconds : {1, 2}, max_requests_per_window : {1, 2}]

RateInit ==
    /\ now = 0
    /\ config \in RateConfigs
    /\ video_semaphore = <<>>
    /\ user_semaphores = [u \in Users |-> <<>>]
    /\ user_requests = [u \in Users |-> <<>>]
    /\ pc = [t \in Tasks |-> "idle"]
    /\ user = [t \in Tasks |-> ""]
    /\ have_waited = [t \in Tasks |-> FALSE]
    /\ admit_log = [u \in Users |-> <<>>]
    /\ rate_verdict = [user |-> "", at |-> 0, limited |-> FALSE]
    /\ ApiInit
    /\ DeliveryIdle({DefaultSender})
    /\ ProfileIdle({DefaultProfile})
    /\ BreakerFresh({DefaultBreakerConfig})

\* One call of _rate_limited(u) by a caller the limiter applies to, with
\* the call and its verdict recorded.
RateLimitedCall(u) ==
    /\ Limited(u)
    /\ LET rl == RateLimited(user_requests[u], now)
       IN  /\ user_requests' = [user_requests EXCEPT ![u] = rl.q]
           /\ rate_verdict' = [user |-> u, at |-> now, limited |-> rl.limited]
           /\ admit_log' = IF rl.limited THEN admit_log
                           ELSE [admit_log EXCEPT ![u] = Append(@, now)]
    /\ UNCHANGED <<now, config, video_semaphore, user_semaphores, pc, user,
                   have_waited, api_vars, breaker_vars, delivery_vars,
                   profile_vars>>

RateNext ==
    \/ Tick
    \/ \E u \in Users : RateLimitedCall(u)

RateSpec == RateInit /\ [][RateNext]_vars

ApiSpec == Init /\ [][ApiNext]_vars

\* A breaker of its own, with small thresholds.
BreakerInit ==
    /\ now = 0
    /\ config \in Configs
    /\ video_semaphore = <<>>
    /\ user_semaphores = [u \in Users |-> <<>>]
    /\ user_requests = [u \in Users |-> <<>>]
    /\ pc = [t \in Tasks |-> "idle"]
    /\ user = [t \in Tasks |-> ""]
    /\ have_waited = [t \in Tasks |-> FALSE]
    /\ admit_log = [u \in Users |-> <<>>]
    /\ rate_verdict = [user |-> "", at |-> 0, limited |-> FALSE]
    /\ ApiInit
    /\ DeliveryIdle({DefaultSender})
    /\ ProfileIdle({DefaultProfile})
    /\ BreakerFresh(BreakerConfigs)

BreakerSpec == BreakerInit /\ [][BreakerNext]_vars

\* generate_video next to a breaker that other calls trip: the poll loop
\* is followed for MaxOrchElapsed seconds.
OrchestratorNext ==
    \/ GenerateVideo
    \/ PollAnswer
    \/ (elapsed < MaxOrchElapsed /\ PollSleep)
    \/ GenerateVideoReturn
    \/ RecordFailureCall
    \/ BreakerTick

\* The breaker opens at the second failure in a row, for two seconds.
OrchestratorInit ==
    /\ BreakerInit
    /\ breaker_config = [failure_threshold |-> 2, recovery_seconds |-> 2,
                         half_open_max_success |-> 1]

OrchestratorSpec == OrchestratorInit /\ [][OrchestratorNext]_vars

\* try_send alone, on a sender with any of the attribute values.
DeliveryInit ==
    /\ now = 0
    /\ config \in Configs
    /\ video_semaphore = <<>>
    /\ user_semaphores = [u \in Users |-> <<>>]
    /\ user_requests = [u \in Users |-> <<>>]
    /\ pc = [t \in Tasks |-> "idle"]
    /\ user = [t \in Tasks |-> ""]
    /\ have_waited = [t \in Tasks |-> FALSE]
    /\ admit_log = [u \in Users |-> <<>>]
    /\ rate_verdict = [user |-> "", at |-> 0, limited |-> FALSE]
    /\ ApiInit
    /\ BreakerFresh({DefaultBreakerConfig})
    /\ DeliveryIdle(Senders)
    /\ ProfileIdle({DefaultProfile})

DeliverySpec == DeliveryInit /\ [][DeliveryNext]_vars

\* Jobs side by side on one model, with any of the profiles configured.
ProfileInit ==
    /\ now = 0
    /\ config \in Configs
    /\ video_semaphore = <<>>
    /\ user_semaphores = [u \in Users |-> <<>>]
    /\ user_requests = [u \in Users |-> <<>>]
    /\ pc = [t \in Tasks |-> "idle"]
    /\ user = [t \in Tasks |-> ""]
    /\ have_waited = [t \in Tasks |-> FALSE]
    /\ admit_log = [u \in Users |-> <<>>]
    /\ rate_verdict = [user |-> "", at |-> 0, limited |-> FALSE]
    /\ ApiInit
    /\ BreakerFresh({DefaultBreakerConfig})
    /\ DeliveryIdle({DefaultSender})
    /\ ProfileIdle(Profiles)

ProfileSpec == ProfileInit /\ [][ProfileNext]_vars

\* The gate with the two maxima configured as any small integer, zero and
\* negative ones included.
CapacityConfigs ==
    [max_requests : {-2, -1, 0, 1}, max_requests_per_user : {-1, 0, 1},
     rate_limit_window_seconds : WindowChoices,
     max_requests_per_window : LimitChoices]

CapacityInit ==
    /\ now = 0
    /\ config \in CapacityConfigs
    /\ video_semaphore = <<>>
    /\ user_semaphores = [u \in Users |-> <<>>]
    /\ user_requests = [u \in Users |-> <<>>]
    /\ pc = [t \in Tasks |-> "idle"]
    /\ user = [t \in Tasks |-> ""]
    /\ have_waited = [t \in Tasks |-> FALSE]
    /\ admit_log = [u \in Users |-> <<>>]
    /\ rate_verdict = [user |-> "", at |-> 0, limited |-> FALSE]
    /\ ApiInit
    /\ BreakerFresh({DefaultBreakerConfig})
    /\ DeliveryIdle({DefaultSender})
    /\ ProfileIdle({DefaultProfile})

\* The steps of the gate at one instant of the clock, which only feeds the
\* rate limiter.
CapacityNext ==
    \/ \E t \in Tasks : Execute(t)
    \/ \E t \in Tasks : RateLimitedReply(t)
    \/ \E t \in Tasks : QueueNoticeSent(t)
    \/ \E t \in Tasks : ResumeGlobal(t)
    \/ \E t \in Tasks : ResumeUser(t)
    \/ \E t \in Tasks : ExecuteInner(t)
    \/ \E t \in Tasks : Cancel(t)

CapacitySpec == CapacityInit /\ [][CapacityNext]_vars

(* ------------------------------- claims -------------------------------- *)

\* The requests inside `async with semaphore`.
PastGlobal == {t \in Tasks : pc[t] \in {"wait_user", "inner"}}

\* The requests of caller u inside `async with user_semaphore`.
PastUser(u) == {t \in Tasks : pc[t] = "inner" /\ user[t] = u}

\* C1: with components.max_requests = N, N >= 1 (a configured 0 counts as
\* 1), at most N requests are inside `async with semaphore` at any time.
C1_GlobalHeldAtMostN ==
    Cardinality(PastGlobal)
        <= (IF config.max_requests >= 1 THEN config.max_requests ELSE 1)

\* N = 2 requests hold the global permits and a third one is queued.
C1_Witness ==
    /\ config.max_requests = 2
    /\ Cardinality(PastGlobal) = 2
    /\ \E t \in Tasks : pc[t] = "wait_global"

\* C2: a request that is blocked on the global or on its per-caller permit
\* was sent the queued notice before it blocked.
C2_NoticeBeforeBlocking ==
    \A t \in Tasks : pc[t] \in {"wait_global", "wait_user"} => have_waited[t]

\* One request is blocked on the global permit and another one on its
\* per-caller permit.
C2_Witness ==
    /\ \E t \in Tasks : pc[t] = "wait_global"
    /\ \E t \in Tasks : pc[t] = "wait_user"

\* The entries of log that lie within the window that ends at time t.
InWindow(log, t) ==
    {i \in 1..Len(log) : t - log[i] <= config.rate_limit_window_seconds}

\* The admissions of the caller of the latest _rate_limited call that
\* precede that call.
PriorAdmissions ==
    LET log == admit_log[rate_verdict.user]
    IN  IF rate_verdict.limited THEN log ELSE SubSeq(log, 1, Len(log) - 1)

\* C3: a call of the limiter is rejected when max_requests_per_window
\* requests of the caller were admitted within the trailing window, and is
\* admitted when every earlier admission is older than the window.
C3_SlidingWindow ==
    rate_verdict.user # "" =>
        LET recent == Cardinality(InWindow(PriorAdmissions, rate_verdict.at))
        IN  /\ recent >= config.max_requests_per_window => rate_verdict.limited
            /\ recent = 0 => ~rate_verdict.limited

\* A caller is rejected with the limit reached inside the window, after
\* having been admitted again once an earlier window had passed.
C3_Witness ==
    /\ rate_verdict.user # ""
    /\ rate_verdict.limited
    /\ Cardinality(InWindow(PriorAdmissions, rate_verdict.at))
           >= config.max_requests_per_window
    /\ \E j \in 2..Len(PriorAdmissions) :
           PriorAdmissions[j] - PriorAdmissions[j - 1]
               > config.rate_limit_window_seconds

\* The permits of a semaphore that are out: held by a request inside the
\* block, or handed to a waiter that has not run yet.
GlobalOut == Cardinality(PastGlobal) + Cardinality(video_semaphore[1].woken)
UserOut(u) == Cardinality(PastUser(u)) + Cardinality(user_semaphores[u][1].woken)

\* C4: every permit taken is given back when the guarded job ends, however
\* it ends: a permit is out only while a request holds it, and with no
\* request in flight every limiter is back at its capacity.
C4_PermitsReleased ==
    /\ video_semaphore # <<>> =>
           video_semaphore[1].value + GlobalOut = Coerce(config.max_requests)
    /\ \A u \in Users : user_semaphores[u] # <<>> =>
           user_semaphores[u][1].value + UserOut(u)
               = Coerce(config.max_requests_per_user)
    /\ (\A t \in Tasks : pc[t] = "idle") =>
           /\ video_semaphore # <<>> =>
                  video_semaphore[1].value = Coerce(config.max_requests)
           /\ \A u \in Users : user_semaphores[u] # <<>> =>
                  user_semaphores[u][1].value
                      = Coerce(config.max_requests_per_user)

\* Requests have come and gone through both limiters and none is in flight.
C4_Witness ==
    /\ \A t \in Tasks : pc[t] = "idle"
    /\ video_semaphore # <<>>
    /\ user_semaphores["u1"] # <<>>
    /\ video_semaphore[1].value = Coerce(config.max_requests)
    /\ user_semaphores["u1"][1].value = Coerce(config.max_requests_per_user)

\* C5: the poll loop is over within poll_timeout_seconds of its start,
\* whatever the provider answers.
C5_PollLoopWithinTimeout ==
    api_pc \in {"poll", "sleep"} => elapsed <= poll_timeout_seconds

\* C6: every request that enters execute() eventually returns, also when
\* it was queued behind the gate.
C6_EveryRequestReturns ==
    \A t \in CommandTasks : (pc[t] # "idle") ~> (pc[t] = "idle")

\* A request that was queued behind the gate got through it and is about
\* to return its failure.
C6_Witness == \E t \in Tasks : have_waited[t] /\ pc[t] = "except"

\* C7: the generate_video call, as _execute_inner issues it, never raises:
\* for every request it yields an (ok, result) pair.
C7_CallYieldsPair == \A t \in Tasks : pc[t] # "except"

\* After the trip and with no record_success since, the instants of the
\* recovery window.
InRecoveryWindow ==
    /\ fail_streak >= breaker_config.failure_threshold
    /\ now - tripped_at < breaker_config.recovery_seconds

C9_RecoveryThenClose ==
    /\ fail_streak >= breaker_config.failure_threshold
         /\ now - tripped_at >= breaker_config.recovery_seconds
           => allow(breaker, breaker_config, now)
    /\ trial_streak >= breaker_config.half_open_max_success
           => breaker = ClosedBreaker

\* The breaker opened, its window elapsed, allow() let a trial through, and
\* two consecutive successes have just closed it.
C9_Witness ==
    /\ breaker_config.half_open_max_success = 2
    /\ trial_streak = 2
    /\ breaker = ClosedBreaker
    /\ allow_log.result /\ allow_log.at > 0

\* C10: after a record_failure() in the trial phase the breaker is open
\* again: allow() is false until a new recovery window has elapsed since
\* that failure.
C10_TrialFailureReopens ==
    trial_failure_at # NoTime
      /\ now - trial_failure_at < breaker_config.recovery_seconds
        => ~allow(breaker, breaker_config, now)

\* C11: a call made while allow() is false fails at once and sends no
\* submit and no poll request.
C11_OpenBreakerFailsFast ==
    api_pc # "idle" /\ ~allowed_at_call
        => /\ api_pc = "done"
           /\ ~api_result.ok
           /\ submits = 0
           /\ polls = 0

\* The statuses on which a submit is to be retried.
RetryableStatuses == {408, 429, 500, 502, 503, 504}

IsRetryable(r) ==
    \/ r.kind = "conn_error"
    \/ r.kind = "http" /\ r.status \in RetryableStatuses

\* C12: a submit that gets a retryable status or a connection error is
\* retried: the call gives up on such an answer only after
\* submit_max_retries retries.
C12_RetryableSubmitRetried ==
    api_pc = "done" /\ IsRetryable(submit_answer)
        => submits = submit_max_retries + 1

\* C13: a submit that gets a non-2xx status outside the retryable set
\* fails at once: one submit, no poll, (false, message), and exactly one
\* breaker failure recorded.
C13_FatalSubmitFailsOnce ==
    (/\ api_pc = "done"
     /\ submit_answer.kind = "http"
     /\ submit_answer.status \notin 200..299
     /\ submit_answer.status \notin RetryableStatuses)
        => (/\ submits = 1
            /\ polls = 0
            /\ ~api_result.ok
            /\ recorded = <<"failure">>)

\* C18: the breaker gets no update while a call is under way, and exactly
\* one record_success() or record_failure() at its terminal outcome.
C18_OneBreakerUpdatePerCall ==
    /\ api_pc \in {"poll", "sleep"} => recorded = <<>>
    /\ api_pc = "done" => Len(recorded) = 1

\* The status vocabulary, whatever its letter case.
Lower(status) ==
    IF status = "Succeed" THEN "succeed"
    ELSE IF status = "Failed" THEN "failed"
    ELSE status

NormalizeStatus(status) ==
    IF Lower(status) \in {"completed", "succeeded", "success", "succeed"}
    THEN "succeeded"
    ELSE IF Lower(status) \in {"failed", "error", "expired"} THEN "failed"
    ELSE "pending"

\* C20: for every format, a poll answer whose status normalizes to
\* succeeded or to failed ends the loop (failed with a failure), and every
\* other status, a missing or empty one too, keeps the loop polling.
C20_ParsePollNormalizes ==
    poll_answer.kind = "json" =>
        LET n == NormalizeStatus(poll_answer.status)
        IN  /\ (n = "pending") <=> (api_pc = "sleep")
            /\ n = "failed" => api_pc = "done" /\ ~api_result.ok
            /\ n = "succeeded" => api_pc = "done"

\* C14: when the transport's response is classified risk_control,
\* file_error or no_space, the delivery makes no further attempt: that
\* POST is the last of the delivery (the only one when it is the first),
\* no sleep follows it, and the result is a failure with that reason. The
\* answer {status failed, retcode 120, message "risk control"} is
\* classified risk_control.
C14_FatalReasonStopsDelivery ==
    /\ \A i \in 1..Len(attempt_log) :
          attempt_log[i] \in FatalReasons =>
              /\ i = Len(attempt_log)
              /\ transport_calls = i
              /\ Len(waits) = i - 1
              /\ dl_pc = "done"
              /\ dl_result = [ok |-> FALSE, text |-> attempt_log[i]]
    /\ AnalyzeNapcatResponse(
           [kind |-> "dict", status |-> "failed", retcode |-> 120,
            message |-> {"risk", "control"}]) = "risk_control"

\* A delivery that met risk control at its first POST, with attempts left.
C14_Witness ==
    /\ dl_pc = "done"
    /\ attempt_log = <<"risk_control">>
    /\ transport_calls = 1
    /\ sender.max_retry = 3

\* The waits of a delivery whose n attempts all go on to the next one.
BackoffWaits(base, n) == [i \in 1..(n - 1) |-> base * 2 ^ (i - 1)]

AllRetryable ==
    /\ attempt_log # <<>>
    /\ \A i \in 1..Len(attempt_log) : attempt_log[i] = "retryable"

\* C15: when every delivery attempt is classified retryable, the delivery
\* makes exactly max_retry attempts and no more, sleeps delay, 2 x delay,
\* 4 x delay, ... between consecutive attempts and not after the last, and
\* returns the retries-exhausted failure.
C15_RetryableExhaustsAttempts ==
    /\ transport_calls <= sender.max_retry
    /\ AllRetryable =>
          /\ waits = BackoffWaits(sender.delay,
                                  IF dl_pc = "post"
                                  THEN transport_calls + 1
                                  ELSE IF dl_pc = "sleep"
                                  THEN transport_calls
                                  ELSE sender.max_retry)
          /\ dl_pc = "done" =>
                /\ transport_calls = sender.max_retry
                /\ dl_result = [ok |-> FALSE, text |-> "retries_exhausted"]
          /\ dl_pc = "post" => transport_calls < sender.max_retry
          /\ dl_pc = "sleep" => transport_calls < sender.max_retry

\* Three retryable answers in a row, with sleeps of the delay and of
\* twice the delay between them.
C15_Witness ==
    /\ dl_pc = "done"
    /\ attempt_log = <<"retryable", "retryable", "retryable">>
    /\ sender = [delay |-> 2, max_retry |-> 3]
    /\ waits = <<2, 4>>
    /\ dl_result.text = "retries_exhausted"


\* C16: for every caller who is not an administrator, the number of the
\* caller's requests that are past both acquire points never exceeds
\* components.max_requests_per_user.
C16_PerCallerHeldAtMostLimit ==
    \A u \in Users \ admin_users :
        Cardinality(PastUser(u)) <= config.max_requests_per_user

\* One request of u1 runs its job holding both permits while a second
\* request of u1 holds a global permit and is queued for u1's permit.
C16_Witness ==
    /\ Cardinality(PastUser("u1")) = config.max_requests_per_user
    /\ \E t \in Tasks : pc[t] = "wait_user" /\ user[t] = "u1"

\* C17: a caller listed in admin_users is never rejected by the
\* sliding-window limiter and never waits on or holds a per-caller permit:
\* no request of theirs gets the rate-limit reply or queues for a
\* per-caller semaphore, and neither a semaphore nor a request history is
\* ever created for them.
C17_AdminBypassesPerCallerLimits ==
    /\ \A t \in Tasks :
          user[t] \in admin_users => pc[t] \notin {"rl_send", "wait_user"}
    /\ \A u \in admin_users :
          /\ user_semaphores[u] = <<>>
          /\ user_requests[u] = <<>>

\* The administrator has more requests running at once than
\* max_requests_per_user and than max_requests_per_window would allow,
\* and one more queued for a global permit.
C17_Witness ==
    /\ \A t \in Tasks : user[t] = "admin"
    /\ Cardinality(PastUser("admin")) > config.max_requests_per_user
    /\ Cardinality(Tasks) > config.max_requests_per_window
    /\ \E t \in Tasks : pc[t] = "wait_global"

\* C19: the provider profile is read-only to a running job and per-job
\* state is not shared: each job hands generate_video the size, ratio and
\* orientation derived from its own command and the configured profile,
\* and when no job is running the stored configuration of the model is
\* what was configured.
C19_ProfileReadOnlyPerJob ==
    /\ \A t \in Jobs :
          job_pc[t] = "called" =>
              job_passed[t] = get_video_size(job_command[t],
                                             configured_profile)
    /\ (\A t \in Jobs : job_pc[t] = "idle") =>
          stored_config = configured_profile

\* What a NapCat answer says, read off the message whatever its letter
\* case: risk or moderation wording, the rejection of a file or video
\* payload, exhausted storage (ENOSPC or "no space left on device").
SaysRisk(message) ==
    InMessage("风控", LowerMessage(message))
        \/ InMessage("risk", LowerMessage(message))
SaysFileRejected(message) ==
    InMessage("file", LowerMessage(message))
        \/ InMessage("video", LowerMessage(message))
SaysNoSpace(message) ==
    \/ InMessage("ENOSPC", message)
    \/ InMessage("no space left on device", LowerMessage(message))

\* C21: the classifier maps every transport response to exactly one
\* outcome: ok for the success marker; else risk_control for risk wording
\* or a risk retcode; else file_error for file or video rejection wording;
\* else no_space for a storage-exhaustion message (ENOSPC or "no space
\* left on device"); and retryable for anything else, a response that
\* cannot be interpreted included.
C21_ClassifierOutcomes ==
    napcat_answer.kind = "http" /\ napcat_answer.status = 200 =>
        LET data == napcat_answer.data
            outcome == attempt_log[Len(attempt_log)]
        IN  outcome =
                IF data.kind = "not_dict" THEN "retryable"
                ELSE IF data.status = "ok" THEN "ok"
                ELSE IF data.kind # "dict" THEN "retryable"
                ELSE IF SaysRisk(data.message) \/ data.retcode \in RiskRetcodes
                THEN "risk_control"
                ELSE IF SaysFileRejected(data.message) THEN "file_error"
                ELSE IF SaysNoSpace(data.message) THEN "no_space"
                ELSE "retryable"

\* C22: at most one counting dimension of the breaker is active: while
\* the open timestamp is absent the half-open success count is 0, and
\* while the open timestamp is set no step increments the failure count.
C22_OneCountingDimension ==
    /\ [](breaker.opened_at = NoTime => breaker.half_open_success = 0)
    /\ [][breaker.opened_at # NoTime
            => breaker'.failure_count <= breaker.failure_count]_vars

\* The breaker is counting trial successes, and a record_failure() call
\* has arrived in that phase.
C22_Witness ==
    /\ breaker.opened_at # NoTime
    /\ breaker.half_open_success > 0
    /\ trial_failure_at # NoTime

\* C30: record_failure() while the open timestamp is set changes nothing:
\* the failure count, the open timestamp and the half-open success count
\* are what they were before the call.
C30_FailureIgnoredWhileOpen ==
    [][RecordFailureCall /\ breaker.opened_at # NoTime
         => /\ breaker'.failure_count = breaker.failure_count
            /\ breaker'.opened_at = breaker.opened_at
            /\ breaker'.half_open_success = breaker.half_open_success]_vars

\* A record_failure() call was made in the trial phase of the open
\* breaker, and the failure count is still the threshold.
C30_Witness ==
    /\ breaker.opened_at # NoTime
    /\ trial_failure_at # NoTime
    /\ breaker.failure_count = breaker_config.failure_threshold

\* The iterations that ended in a timeout or in a connection error.
NetworkFaults == {"timeout", "exception"}

\* Every iteration so far went on to the next one, and at least one of
\* them ended in a network fault.
OnlyRetriedWithNetworkFault ==
    /\ \A i \in 1..Len(attempt_log) : attempt_log[i] \in RetriedOutcomes
    /\ \E i \in 1..Len(attempt_log) : attempt_log[i] \in NetworkFaults

\* C25: a timeout or connection error during a delivery attempt is
\* handled like a retryable classification: it consumes one attempt, the
\* same backoff follows it (delay, 2 x delay, ..., none after the last
\* attempt), and a delivery in which every attempt ends that way gives
\* the retries-exhausted failure after max_retry attempts.
C25_NetworkFaultLikeRetryable ==
    OnlyRetriedWithNetworkFault =>
        /\ transport_calls = Len(attempt_log)
        /\ dl_pc \in {"sleep", "post", "done"}
        /\ dl_pc = "sleep" =>
              /\ transport_calls < sender.max_retry
              /\ waits = BackoffWaits(sender.delay, transport_calls)
        /\ dl_pc = "post" =>
              /\ transport_calls < sender.max_retry
              /\ waits = BackoffWaits(sender.delay, transport_calls + 1)
        /\ dl_pc = "done" =>
              /\ transport_calls = sender.max_retry
              /\ waits = BackoffWaits(sender.delay, sender.max_retry)
              /\ dl_result = [ok |-> FALSE, text |-> "retries_exhausted"]

\* Three attempts that ended in a timeout, a connection error and a
\* timeout, with sleeps of the delay and of twice the delay between them.
C25_Witness ==
    /\ dl_pc = "done"
    /\ attempt_log = <<"timeout", "exception", "timeout">>
    /\ waits = <<sender.delay, 2 * sender.delay>>
    /\ dl_result.text = "retries_exhausted"

\* C23: a job's normalized status only moves forward: a poll that has
\* observed succeeded or failed is the last poll of the job, and the
\* result matches it: succeeded returns the artifact reference and
\* records a breaker success, failed returns the provider's error text
\* and records a breaker failure.
C23_TerminalStatusIsFinal ==
    poll_answer.kind = "json" =>
        LET n == NormalizeStatus(poll_answer.status)
        IN  /\ n = "succeeded" =>
                  /\ api_pc = "done"
                  /\ api_result.ok
                  /\ recorded = <<"success">>
            /\ n = "failed" =>
                  /\ api_pc = "done"
                  /\ ~api_result.ok
                  /\ recorded = <<"failure">>

\* C24: a poll answer with a succeeded status and no artifact URL in any
\* recognized shape is a success with an empty artifact reference: the
\* call returns ok = true with an empty result.
C24_SucceededWithoutUrlIsEmptySuccess ==
    (/\ poll_answer.kind = "json"
     /\ NormalizeStatus(poll_answer.status) = "succeeded"
     /\ poll_answer.url = "none")
        => (/\ api_pc = "done"
            /\ api_result = [ok |-> TRUE, text |-> ""])

\* C26: a failed poll call (connection error, timeout, undecodable body)
\* fails the whole operation: the call is over with a failure, and the
\* poll request is neither repeated nor followed by another one.
C26_FailedPollCallIsFatal ==
    /\ [](poll_answer.kind = "failed_call" =>
              /\ api_pc = "done"
              /\ api_result = [ok |-> FALSE, text |-> "request_failed"])
    /\ [][poll_answer.kind = "failed_call" =>
              /\ api_pc' = "idle"
              /\ polls' = 0]_vars

\* The second poll of a job failed as a call, after a first one that
\* found the job pending.
C26_Witness ==
    /\ poll_answer.kind = "failed_call"
    /\ polls = 2
    /\ elapsed = poll_sleep_seconds
    /\ api_pc = "done"

\* C27: submit retries are bounded: a call whose submit is answered with
\* a retryable status or a connection error sends at most
\* 1 + submit_max_retries submit requests and returns a failure without
\* polling.
C27_SubmitRetriesBounded ==
    /\ submits <= 1 + submit_max_retries
    /\ IsRetryable(submit_answer) =>
          /\ api_pc = "done"
          /\ ~api_result.ok
          /\ polls = 0

\* The provider answered the submit with 503 and a body that names a job.
C27_Witness ==
    /\ api_pc = "done"
    /\ submit_answer = [kind |-> "http", status |-> 503, body |-> "id"]
    /\ submits = 1
    /\ api_result.text = "api_request_failed"

\* A 2xx answer whose body is not JSON or does not name the job.
Malformed2xx(r) ==
    /\ r.kind = "http"
    /\ r.status \in 200..299
    /\ r.body \in {"undecodable", "no_id", "not_object"}

\* C28: a submit answer with a 2xx status whose body cannot be decoded or
\* lacks the job identifier is fatal: one submit, no poll, a failure.
C28_MalformedSubmitIsFatal ==
    Malformed2xx(submit_answer) =>
        /\ api_pc = "done"
        /\ submits = 1
        /\ polls = 0
        /\ ~api_result.ok

\* A 200 answer with a body that is not JSON, and one without the job
\* identifier.
C28_Witness ==
    /\ api_pc = "done"
    /\ submit_answer.status = 200
    /\ \/ submit_answer.body = "undecodable"
          /\ api_result.text = "response_parse_failed"
       \/ submit_answer.body = "no_id" /\ api_result.text = "api_error"


\* The capacity of a semaphore: its free permits and the permits that are
\* out.
GlobalCapacity == video_semaphore[1].value + GlobalOut
UserCapacity(u) == user_semaphores[u][1].value + UserOut(u)

\* C31: whatever integer max_requests is configured as, the global permit
\* pool has a capacity of at least 1, and of exactly 1 for a configured 0;
\* the same holds of every per-caller pool and max_requests_per_user.
C31_CapacityAtLeastOne ==
    /\ video_semaphore # <<>> =>
           /\ GlobalCapacity >= 1
           /\ config.max_requests = 0 => GlobalCapacity = 1
    /\ \A u \in Users : user_semaphores[u] # <<>> =>
           /\ UserCapacity(u) >= 1
           /\ config.max_requests_per_user = 0 => UserCapacity(u) = 1

\* With both maxima configured as 0, a request of u1 has got through both
\* pools and runs its job.
C31_Witness ==
    /\ config.max_requests = 0
    /\ config.max_requests_per_user = 0
    /\ \E t \in Tasks : pc[t] = "inner" /\ user[t] = "u1"
    /\ GlobalCapacity = 1
    /\ UserCapacity("u1") = 1


\* The requests queued for a global permit (a woken one has been handed its
\* permit and has not run yet).
WaitingGlobal == {t \in Tasks : pc[t] = "wait_global"}

\* C32: the global permit is acquired first, the per-caller one second: a
\* request that is waiting for a global permit holds no per-caller permit.
\* It is in no per-caller queue, and every permit of its caller's pool is
\* free or out to a request that is past the global acquire.
C32_GlobalBeforePerCaller ==
    \A t \in WaitingGlobal :
        /\ \A u \in Users : user_semaphores[u] # <<>> =>
               /\ t \notin user_semaphores[u][1].woken
               /\ \A i \in 1..Len(user_semaphores[u][1].waiters) :
                      user_semaphores[u][1].waiters[i] # t
        /\ Limited(user[t]) /\ user_semaphores[user[t]] # <<>> =>
               UserCapacity(user[t]) = Coerce(config.max_requests_per_user)

\* A request of u1 waits for a global permit while u1's own permit is free.
C32_Witness ==
    \E t \in WaitingGlobal :
        /\ user[t] = "u1"
        /\ user_semaphores["u1"] # <<>>
        /\ user_semaphores["u1"][1].value = Coerce(config.max_requests_per_user)


\* C33: a request that the sliding-window limiter rejects fails fast.  The
\* step that rejects it takes no global and no per-caller permit and sends
\* no queued notice; from the rejection the request goes straight to its
\* return, never into _execute_inner and its provider calls, and its
\* return gives back no permit.
C33_RateLimitedFailsFast ==
    [][\A t \in Tasks :
         /\ pc[t] = "idle" /\ pc'[t] = "rl_send" =>
                UNCHANGED <<video_semaphore, user_semaphores, have_waited>>
         /\ pc[t] = "rl_send" =>
                /\ ~have_waited[t]
                /\ pc'[t] \in {"rl_send", "idle"}
                /\ pc'[t] = "idle" =>
                       UNCHANGED <<video_semaphore, user_semaphores>>]_vars

\* A request of u1 has been rejected by the limiter while another request
\* is inside the gate, about to call generate_video, and the global pool
\* still has a free permit.
C33_Witness ==
    /\ \E t \in Tasks : pc[t] = "rl_send" /\ user[t] = "u1"
    /\ \E t \in Tasks : pc[t] = "started"
    /\ video_semaphore[1].value > 0


\* q is what is left of p after entries were dropped from its front.
IsSuffix(q, p) == \E k \in 0..Len(p) : q = SubSeq(p, k + 1, Len(p))

\* C34: a rejected call of the limiter adds no entry to the caller's
\* timestamp queue (it only drops stale ones), an admitted call adds the
\* current time, and no call changes another caller's queue.  Hence a
\* rejection is always owed to admitted requests alone: whenever a call is
\* rejected, max_requests_per_window admissions lie within the window.
C34_OnlyAdmittedRecorded ==
    /\ [](rate_verdict.user # "" /\ rate_verdict.limited =>
             Cardinality(InWindow(PriorAdmissions, rate_verdict.at))
                 >= config.max_requests_per_window)
    /\ [][\A u \in Users : RateLimitedCall(u) =>
             /\ \A v \in Users \ {u} : user_requests'[v] = user_requests[v]
             /\ rate_verdict'.limited =>
                    IsSuffix(user_requests'[u], user_requests[u])
             /\ ~rate_verdict'.limited =>
                    /\ user_requests'[u] # <<>>
                    /\ IsSuffix(SubSeq(user_requests'[u], 1,
                                       Len(user_requests'[u]) - 1),
                                user_requests[u])
                    /\ user_requests'[u][Len(user_requests'[u])] = now]_vars

\* u1 has just been rejected, later than its admissions, and its queue
\* holds the admitted requests of the window and nothing else; u2 has a
\* queue of its own.
C34_Witness ==
    /\ rate_verdict = [user |-> "u1", at |-> now, limited |-> TRUE]
    /\ Len(user_requests["u1"]) = config.max_requests_per_window
    /\ \A i \in 1..Len(user_requests["u1"]) : user_requests["u1"][i] < now
    /\ user_requests["u2"] # <<>>


\* The requests of caller u that hold a global permit.
HoldingGlobal(u) == {t \in PastGlobal : user[t] = u}

\* C35: the requests of one caller who is not an administrator never hold
\* more global permits than max_requests_per_user at the same time (a
\* request that waits for its caller's permit occupies no global slot).
C35_CallerHoldsAtMostPerUserGlobal ==
    \A u \in Users \ admin_users :
        Cardinality(HoldingGlobal(u)) <= Coerce(config.max_requests_per_user)

\* C35, amended: the requests of one such caller run at most
\* max_requests_per_user jobs at the same time and hold at most
\* max_requests global permits; a request that waits for its caller's
\* permit is out of the global queue and holds one of the global permits.
C35_WaiterOccupiesGlobalSlot ==
    /\ \A u \in Users \ admin_users :
          /\ Cardinality(PastUser(u)) <= Coerce(config.max_requests_per_user)
          /\ Cardinality(HoldingGlobal(u)) <= Coerce(config.max_requests)
    /\ \A t \in Tasks : pc[t] = "wait_user" =>
          /\ \A i \in 1..Len(video_semaphore[1].waiters) :
                 video_semaphore[1].waiters[i] # t
          /\ GlobalCapacity = Coerce(config.max_requests)

\* With max_requests = 2 and max_requests_per_user = 1, u1 holds both
\* global permits, one request running and one waiting for u1's permit,
\* and the administrator's request waits for a global permit while a
\* single job runs.
C35_Witness ==
    /\ config.max_requests = 2
    /\ Cardinality(HoldingGlobal("u1")) = 2
    /\ Cardinality(PastUser("u1")) = 1
    /\ \E t \in WaitingGlobal : user[t] = "admin"
    /\ video_semaphore[1].value = 0


\* C36: the gate neither deadlocks nor starves a request: with every job
\* ending and the event loop running every task that is ready, a request
\* blocked on the global or on its per-caller permit is eventually
\* admitted to its job, whatever the callers and the interleaving.
C36_BlockedEventuallyAdmitted ==
    \A t \in CommandTasks :
        (pc[t] \in {"wait_global", "wait_user"}) ~> (pc[t] = "inner")

\* A request of u1 that was blocked on u1's permit has been handed the
\* permit by the request that held it, and has not run yet.
C36_Witness ==
    \E t \in CommandTasks :
        /\ pc[t] = "wait_user"
        /\ user[t] = "u1"
        /\ t \in user_semaphores["u1"][1].woken


\* C37: when the POST of a delivery attempt is answered with an HTTP status
\* other than 200, try_send returns a failure in that iteration, whatever
\* the body says and however many attempts remain: the answer is not
\* classified, no POST and no sleep follows it.
C37_HttpErrorReturnsAtOnce ==
    napcat_answer.kind = "http" /\ napcat_answer.status # 200 =>
        /\ dl_pc = "done"
        /\ dl_result = [ok |-> FALSE, text |-> "http_error"]
        /\ attempt_log[Len(attempt_log)] = "http_error"
        /\ transport_calls = attempt
        /\ Len(waits) = attempt - 1

\* With three attempts allowed, the second POST is answered with status
\* 500 and a body that reports success: the delivery has ended after two
\* POSTs and one sleep.
C37_Witness ==
    /\ sender.max_retry = 3
    /\ attempt = 2
    /\ napcat_answer.kind = "http"
    /\ napcat_answer.status = 500
    /\ napcat_answer.data.kind = "dict"
    /\ napcat_answer.data.status = "ok"
    /\ dl_pc = "done"
    /\ transport_calls = 2
    /\ waits = <<sender.delay>>


\* The requests that pre-flight validation has to reject: an unknown
\* model, no description, a description longer than max_prompt_length, an
\* image for a model that takes text only, no image for a model that takes
\* images only.
Rejected(r) ==
    \/ ~r.model_ok
    \/ r.desc_len = 0
    \/ r.desc_len > max_prompt_length
    \/ r.has_image /\ r.support_option = "1"
    \/ ~r.has_image /\ r.support_option = "2"

\* The requests inside `async with semaphore`, with _execute_inner
\* followed in full, and those of caller u inside both blocks.
InsideGate ==
    {t \in Tasks : pc[t] \notin {"idle", "rl_send", "notify", "wait_global"}}
InsideUserGate(u) == {t \in InsideGate : pc[t] # "wait_user" /\ user[t] = u}

\* Every permit of every pool is free or out: held by a request inside
\* the block, or handed to a waiter that has not run yet.
PermitsAccounted ==
    /\ video_semaphore # <<>> =>
           video_semaphore[1].value + Cardinality(InsideGate)
               + Cardinality(video_semaphore[1].woken)
                   = Coerce(config.max_requests)
    /\ \A u \in Users : user_semaphores[u] # <<>> =>
           user_semaphores[u][1].value + Cardinality(InsideUserGate(u))
               + Cardinality(user_semaphores[u][1].woken)
                   = Coerce(config.max_requests_per_user)

\* C38: a request that fails pre-flight validation inside the gate ends
\* with the failure reason of its check, causes no provider request, and
\* gives its permits back.  Every request the validation has to reject is
\* suspended in the reply of a failed check; from there its only step is
\* the return, never the generate_video call; and after every step the
\* permits of every pool are free or out to a request that is still
\* inside the gate.
C38_PreFlightRejectionIsClean ==
    [][/\ PermitsAccounted'
       /\ \A t \in Tasks :
            /\ pc[t] = "inner" /\ pc'[t] # "inner" =>
                   \A r \in Requests :
                       Rejected(r) /\ pc'[t] = InnerTarget(r) =>
                           pc'[t] = "rejected"
            /\ pc[t] = "rejected" => pc'[t] \in {"rejected", "idle"}]_vars

\* A request is suspended in the reply of a failed check, holding the only
\* global permit, and another request waits for it.
C38_Witness ==
    /\ \E t \in Tasks : pc[t] = "rejected"
    /\ \E t \in Tasks : pc[t] = "wait_global"
    /\ video_semaphore[1].value = 0


\* C39: generate_video called with a profile whose format tag is none of
\* openai, siliconflow, doubao and vectorengine returns a pair
\* (False, message): it sends no submit and no poll request and no
\* exception leaves it.
C39_UnknownFormatFailsWithoutRequest ==
    api_pc # "idle"
        /\ api_format \notin {"openai", "siliconflow", "doubao", "vectorengine"}
    => /\ api_pc = "done"
       /\ api_result = [ok |-> FALSE, text |-> "api_call_exception"]
       /\ submits = 0
       /\ polls = 0

\* A call with the tag "other" has returned its failure.
C39_Witness ==
    /\ api_format = "other"
    /\ api_pc = "done"
    /\ ~api_result.ok


\* C40: the success outcome is reachable through the command layer.  The
\* generate_video call that _execute_inner makes for a request that has
\* passed the gate and the validation gets to the provider: from the
\* "generation started" notice the request goes on to the poll loop or,
\* with the provider's answer, to the delivery, and with a favourable
\* provider and a successful send it returns (True, "ok", True); it does
\* not go to the except clause that returns "execute_error".
C40_SuccessReachableThroughCommand ==
    [][\A t \in CommandTasks :
         pc[t] = "started" => pc'[t] \in {"started", "poll", "deliver"}]_vars


=============================================================================
